---- MODULE Spec2Model ----
(***************************************************************************)
(* Account scheduler of code-rs/core (account_scheduler.rs) over the      *)
(* unified account catalogue (auth_accounts.rs).                          *)
(*                                                                         *)
(* Numbers.  The source computes weights in f64.  The model computes them *)
(* in fixed point: a quota ratio is an integer number of thousandths, a   *)
(* weight an integer number of ten-thousandths.  The telemetry values     *)
(* enumerated below are chosen so that every division is exact, so the    *)
(* model's weights are the source's weights times WeightUnit.             *)
(*                                                                         *)
(* Option<T> is modelled as a sequence: None is <<>>, Some(x) is <<x>>.   *)
(* A HashMap is a function whose DOMAIN is the set of keys present.       *)
(***************************************************************************)
EXTENDS Integers, Sequences, FiniteSets, TLC

None == <<>>
Some(x) == <<x>>
Unwrap(opt) == opt[1]

EmptyMap == [k \in {} |-> k]

Max(a, b) == IF a >= b THEN a ELSE b
Min(a, b) == IF a <= b THEN a ELSE b
Clamp(x, lo, hi) == Max(lo, Min(x, hi))

RECURSIVE SumOver(_, _)
\* f64 sum of f[k] over the keys in S (exact in fixed point, so order-free)
SumOver(S, f) ==
    IF S = {} THEN 0
    ELSE LET k == CHOOSE x \in S : TRUE IN f[k] + SumOver(S \ {k}, f)

\* All iteration orders of a hash map with key set S
Orders(S) ==
    {o \in [1..Cardinality(S) -> S] : \A i, j \in 1..Cardinality(S) : o[i] = o[j] => i = j}

(***************************************************************************)
(* Fixed-point units                                                       *)
(***************************************************************************)
\* ratios and multipliers are held in thousandths
RatioUnit == 10 * 100
\* weights and `current` counters are held in ten-thousandths
WeightUnit == 10 * RatioUnit
\* priorities (percent of quota per fraction of window) are held in tenths
PriorityUnit == 2 * 5

(***************************************************************************)
(* Constants of account_scheduler.rs                                       *)
(***************************************************************************)
DEFAULT_PRIORITY_SCORE == 10000
\* MIN_TIME_FRACTION = 0.01, held as the denominator of the fraction
MIN_TIME_FRACTION_DENOM == 100
DEFAULT_COOLDOWN_SECS == 15
\* MIN_EFFECTIVE_WEIGHT = 0.001
MIN_EFFECTIVE_WEIGHT == WeightUnit \div 1000
MIN_EFFECTIVE_RATIO == RatioUnit \div 1000
R_CRITICAL == RatioUnit \div 4
R_LOW == 1 * RatioUnit
R_SURPLUS == (3 * RatioUnit) \div 2
R_CAP == 4 * RatioUnit
U_MIN == RatioUnit \div 10
U_BASE == 1 * RatioUnit
U_MAX == 2 * RatioUnit

(***************************************************************************)
(* The catalogue: what auth_accounts::list_accounts returns                *)
(***************************************************************************)
\* ids of explicitly registered accounts are UUIDs; ids of slot-derived
\* accounts are "slot-<slug>"
ExplicitIds == {"acct-1"}
SlotIds == {"slot-a", "slot-b"}
AccountIds == ExplicitIds \cup SlotIds
\* TokenData.account_id values
TokenAccountIds == {"u1", "u2"}

\* account.id.starts_with("slot-")
StartsWithSlotPrefix(id) == id \in SlotIds

\* String ordering of account ids (Ord for String): rank in sorted order
IdRank(id) == CASE id = "acct-1" -> 1 [] id = "slot-a" -> 2 [] id = "slot-b" -> 3

\* StoredAccount of mode ApiKey; key is an Option<String>
ApiKeyAccount(id, key) ==
    [id |-> id, mode |-> "ApiKey", openai_api_key |-> key, tokens |-> None]

\* StoredAccount of mode ChatGPT; acct is TokenData.account_id, an Option<String>
ChatGPTAccount(id, acct) ==
    [id |-> id, mode |-> "ChatGPT", openai_api_key |-> None,
     tokens |-> Some([account_id |-> acct])]

\* The records the catalogue can hold for an id.  Explicit records come from
\* upsert_api_key_account (key always Some, possibly the empty string) and
\* upsert_chatgpt_account (tokens always Some); slot records come from
\* push_slot_account (mode ChatGPT iff the auth file has tokens, otherwise
\* ApiKey with whatever key the file has, possibly none).
AccountOptions(id) ==
    CASE id = "acct-1" ->
            {ApiKeyAccount(id, Some("sk-1")), ApiKeyAccount(id, Some("")),
             ChatGPTAccount(id, Some("u1"))}
      [] id = "slot-a" ->
            {ApiKeyAccount(id, None), ChatGPTAccount(id, Some("u1"))}
      [] id = "slot-b" ->
            {ChatGPTAccount(id, Some("u1")), ChatGPTAccount(id, Some("u2")),
             ChatGPTAccount(id, None)}

(***************************************************************************)
(* Telemetry: what account_usage::list_rate_limit_snapshots returns        *)
(***************************************************************************)
\* StoredRateLimitSnapshot with a RateLimitSnapshotEvent
Snapshot(used, minutes, reset) ==
    [snapshot |-> Some([secondary_used_percent |-> used,
                        secondary_window_minutes |-> minutes]),
     secondary_next_reset_at |-> reset]

\* telemetry with no reset time: the whole window counts as remaining
SteadySnapshots ==
    {Snapshot(0, 1, None), Snapshot(50, 1, None), Snapshot(90, 1, None),
     Snapshot(100, 1, None)}

\* telemetry whose weight moves with `now`
ResettingSnapshots == {Snapshot(0, 1, Some(75))}

\* the instants at which the scheduler is called and outcomes are recorded
Times == {0, 15, 60}

\* explicit resume_at values of RateLimited outcomes
ResumeTimes == {15}

(***************************************************************************)
(* Pure functions of account_scheduler.rs                                  *)
(***************************************************************************)
\* AuthMode::ApiKey needs openai_api_key.is_some(), AuthMode::ChatGPT needs
\* tokens.is_some()
has_credentials(account) ==
    IF account.mode = "ApiKey"
    THEN account.openai_api_key # None
    ELSE account.tokens # None

\* mutant: the token account id is the identity of any account that has one
slot_identity_any(account) ==
    IF account.tokens # None /\ Unwrap(account.tokens).account_id # None
    THEN Unwrap(Unwrap(account.tokens).account_id)
    ELSE account.id

\* The scheduling identity of an account
slot_identity(account) ==
    IF ~StartsWithSlotPrefix(account.id)
    THEN account.id
    ELSE IF account.tokens # None /\ Unwrap(account.tokens).account_id # None
         THEN Unwrap(Unwrap(account.tokens).account_id)
         ELSE account.id

\* mutant: retain keeps the expired entries and drops the live ones
prune_inverted(cd, now_) ==
    [id \in {i \in DOMAIN cd : cd[i] <= now_} |-> cd[id]]

\* cooldowns.retain(|_, until| *until > now)
prune_expired_cooldowns(cd, now_) ==
    [id \in {i \in DOMAIN cd : cd[i] > now_} |-> cd[id]]

\* mutant: the comparison of is_blocked inverted
is_blocked_inverted(cd, account_id, now_) ==
    account_id \in DOMAIN cd /\ cd[account_id] < now_

\* cooldowns.get(account_id).map_or(false, |until| *until > now)
is_blocked(cd, account_id, now_) ==
    account_id \in DOMAIN cd /\ cd[account_id] > now_

\* Option<f64> in PriorityUnit: remaining percent over the clamped fraction of
\* the window that is still to run
compute_priority(snap, now_) ==
    IF snap.snapshot = None THEN None
    ELSE LET event == Unwrap(snap.snapshot)
             total_minutes == Max(event.secondary_window_minutes, 1)
             total_seconds == total_minutes * 60
             remaining_pct == Clamp(100 - event.secondary_used_percent, 0, 100)
             seconds_remaining ==
                 IF snap.secondary_next_reset_at = None
                 THEN total_seconds
                 ELSE Max(Unwrap(snap.secondary_next_reset_at) - now_, 0)
             \* time_fraction = fraction_num / (total_seconds * MIN_TIME_FRACTION_DENOM)
             fraction_num ==
                 Clamp(seconds_remaining * MIN_TIME_FRACTION_DENOM,
                       total_seconds,
                       total_seconds * MIN_TIME_FRACTION_DENOM)
         IN Some((remaining_pct * PriorityUnit * total_seconds * MIN_TIME_FRACTION_DENOM)
                    \div fraction_num)

\* mutant: a critical ratio is not deprioritised
urgency_flat(ratio) ==
    IF ratio >= R_CAP THEN U_MAX
    ELSE IF ratio < R_SURPLUS THEN U_BASE
    ELSE U_BASE + ((ratio - R_SURPLUS) * (U_MAX - U_BASE)) \div (R_CAP - R_SURPLUS)

\* mutant: a surplus is not rewarded until the cap
urgency_steps(ratio) ==
    IF ratio <= R_CRITICAL THEN U_MIN
    ELSE IF ratio >= R_CAP THEN U_MAX
    ELSE IF ratio < R_LOW
         THEN U_MIN + ((ratio - R_CRITICAL) * (U_BASE - U_MIN)) \div (R_LOW - R_CRITICAL)
    ELSE U_BASE

\* multiplier in RatioUnit for a ratio in RatioUnit
urgency_multiplier(ratio) ==
    IF ratio <= R_CRITICAL THEN U_MIN
    ELSE IF ratio >= R_CAP THEN U_MAX
    ELSE IF ratio < R_LOW
         THEN U_MIN + ((ratio - R_CRITICAL) * (U_BASE - U_MIN)) \div (R_LOW - R_CRITICAL)
    ELSE IF ratio < R_SURPLUS THEN U_BASE
    ELSE U_BASE + ((ratio - R_SURPLUS) * (U_MAX - U_BASE)) \div (R_CAP - R_SURPLUS)

\* "Health data not yet persisted; assume healthy": the multiplier 1.0
health_multiplier(snap) == 1

\* compute_priority(..).unwrap_or(DEFAULT_PRIORITY_SCORE) / 100.0, in RatioUnit
quota_ratio(snap, now_) ==
    LET priority == compute_priority(snap, now_)
        p == IF priority = None THEN DEFAULT_PRIORITY_SCORE * PriorityUnit
             ELSE Unwrap(priority)
    IN (p * RatioUnit) \div (100 * PriorityUnit)

\* ratio.max(MIN_EFFECTIVE_WEIGHT) * urgency * health, in WeightUnit
compute_weight(snap, now_) ==
    LET ratio == quota_ratio(snap, now_)
        urgency == urgency_multiplier(ratio)
        health == health_multiplier(snap)
    IN ((Max(ratio, MIN_EFFECTIVE_RATIO) * urgency)
            \div ((RatioUnit * RatioUnit) \div WeightUnit)) * health

(***************************************************************************)
(* State                                                                   *)
(***************************************************************************)
VARIABLES
    accounts,    \* catalogue: id -> StoredAccount, as list_accounts returns it
    list_ok,     \* whether list_accounts succeeded in the last next_account
    snapshots,   \* telemetry: id -> StoredRateLimitSnapshot
    cooldowns,   \* AccountScheduler.cooldowns: id -> resume time
    weights,     \* AccountScheduler.weights: identity -> WeightedState
    op,          \* the last call made on the scheduler
    now,         \* the `now` of the last next_account call
    ret,         \* what the last call returned: Option of an account id
    calls,       \* history: number of next_account calls made
    log,         \* history: per account id the last outcome recorded for it, the
                 \* wall-clock time it was recorded at, and the latest `now` of the
                 \* next_account calls made since
    counts,      \* the tests' tally of returned account ids
    refStates,   \* `states` of the tests' reference_weighted_order
    hist,        \* history: per account id the `now` of the latest next_account
                 \* call before its last outcome and the cooldown a Success removed
    store,       \* AccountsFile.accounts: the sequence of explicit records
    active,      \* AccountsFile.active_account_id
    nextId,      \* number of record ids next_id() has put into the file
    last,        \* the last call made on the accounts file: op, arg, ret
    registry,    \* SlotRegistryFile.slots: the sequence of registry entries
    dirs,        \* directories under the code home: name -> has a credential file
    slot_last,   \* the last call made on the slots: op, arg, ret
    removed,     \* history: ids remove_slot returned a slot for, until add_slot
                 \* returns the id again or the directories are changed from outside
    seen,        \* history: the (id, path) pairs list_slots has reported and the
                 \* labels rename_slot has set, for the ids not removed since
    procs        \* the processes calling into one code home: per process where
                 \* its call stands (pc), what it read from the file (data), the
                 \* call's argument (arg) and what the call returned (ret)

\* the accounts file, with the history of calls on it
container_vars == <<store, active, nextId, last>>

\* the scheduler with its catalogue, telemetry and history
scheduler_vars == <<accounts, list_ok, snapshots, cooldowns, weights, op, now, ret, calls, log,
                    counts, refStates, hist>>

\* the slot registry and the directories, with the history of calls on them
slot_vars == <<registry, dirs, slot_last, removed, seen>>

vars == <<scheduler_vars, container_vars, slot_vars, procs>>

(***************************************************************************)
(* AccountScheduler::next_account, step by step                            *)
(***************************************************************************)
\* lines 80-83: the accounts that pass the credential and cooldown filter
eligible_ids(accts, cd, now_) ==
    {id \in DOMAIN accts : has_credentials(accts[id]) /\ ~is_blocked(cd, id, now_)}

\* lines 85-90: weight of one candidate
slot_weight(snaps, id, now_) ==
    Max(IF id \in DOMAIN snaps
        THEN compute_weight(snaps[id], now_)
        ELSE DEFAULT_PRIORITY_SCORE * WeightUnit,
        MIN_EFFECTIVE_WEIGHT)

\* ids of the candidates of one identity
members(accts, E, identity) == {id \in E : slot_identity(accts[id]) = identity}

\* lines 77-105: summed weight per identity over the candidates
totals_by_identity(accts, snaps, cd, now_) ==
    LET E == eligible_ids(accts, cd, now_)
        w == [id \in E |-> slot_weight(snaps, id, now_)]
    IN [identity \in {slot_identity(accts[id]) : id \in E} |->
            SumOver(members(accts, E, identity), w)]

\* lines 107-111: drop weights for identities that disappeared
retain_weights(w, totals) ==
    IF DOMAIN w = {} THEN w
    ELSE [identity \in DOMAIN w \cap DOMAIN totals |-> w[identity]]

\* mutant: the counter is overwritten instead of accumulated
accumulate_overwrite(state, weight_sum) ==
    [weight |-> weight_sum, current |-> weight_sum]

\* lines 123-131: state.weight = weight_sum; state.current += state.weight
accumulate(state, weight_sum) ==
    [weight |-> weight_sum, current |-> state.current + weight_sum]

\* lines 122-131 for every identity, inserting {weight, current: 0.0} when new
accumulate_all(w, totals) ==
    [identity \in DOMAIN totals |->
        accumulate(IF identity \in DOMAIN w THEN w[identity]
                   ELSE [weight |-> totals[identity], current |-> 0],
                   totals[identity])]

\* lines 132-135: does this identity replace the best one so far
beats(current, best_current) == current > best_current

RECURSIVE scan_best(_, _, _, _)
\* lines 119-136: the identity whose current is the first strict maximum in
\* the hash map's iteration order; best = None stands for f64::MIN
scan_best(order, states, k, best) ==
    IF k > Len(order) THEN best
    ELSE IF best = None \/ beats(states[order[k]].current, states[Unwrap(best)].current)
         THEN scan_best(order, states, k + 1, Some(order[k]))
         ELSE scan_best(order, states, k + 1, best)

\* mutant: the winner's counter is left as it is
settle_nothing(state, total_weight) == state

\* mutant: the winner pays its own weight instead of the total
settle_own_weight(state, total_weight) == [state EXCEPT !.current = @ - state.weight]

\* lines 139-141: state.current -= total_weight for the winner
settle(state, total_weight) == [state EXCEPT !.current = @ - total_weight]

\* mutant: the members are ordered by account id alone
slot_less_by_id(wa, a, wb, b) == IdRank(a) < IdRank(b)

\* lines 148-153: a is ordered below b by (weight, account_id)
slot_less(wa, a, wb, b) == wa < wb \/ (wa = wb /\ IdRank(a) < IdRank(b))

\* lines 145-155: the heaviest slot of the winning identity, ties by id
select_slot(accts, snaps, E, best, now_) ==
    CHOOSE a \in members(accts, E, best) :
        \A b \in members(accts, E, best) \ {a} :
            slot_less(slot_weight(snaps, b, now_), b, slot_weight(snaps, a, now_), a)

\* lines 113-157 for the iteration order `order` of totals_by_identity:
\* the new weights and the selected account id
pick(accts, snaps, E, kept, totals, order, now_) ==
    LET states == accumulate_all(kept, totals)
        best == Unwrap(scan_best(order, states, 1, None))
    IN [weights |-> [states EXCEPT ![best] = settle(@, SumOver(DOMAIN totals, totals))],
        selection |-> select_slot(accts, snaps, E, best, now_)]

\* next_account(now_); ok is whether auth_accounts::list_accounts succeeds
\* (lines 69-75).  A failed telemetry read (lines 58-67) is the same as
\* snapshots being empty.
next_account(now_, ok) ==
    \E pruned \in {prune_expired_cooldowns(cooldowns, now_)} :
    \E totals \in {totals_by_identity(accounts, snapshots, pruned, now_)} :
       /\ cooldowns' = pruned
       /\ list_ok' = ok
       /\ IF ~ok
          THEN weights' = weights /\ ret' = None
          ELSE IF SumOver(DOMAIN totals, totals) <= 0
          THEN weights' = retain_weights(weights, totals) /\ ret' = None
          ELSE \E order \in Orders(DOMAIN totals) :
               \E picked \in {pick(accounts, snapshots, eligible_ids(accounts, pruned, now_),
                                   retain_weights(weights, totals), totals, order, now_)} :
                  /\ weights' = picked.weights
                  /\ ret' = Some(picked.selection)
       /\ op' = "next_account"
       /\ now' = now_
       /\ log' = [id \in DOMAIN log |->
                    IF log[id].outcome.kind = "Success" THEN log[id]
                    ELSE [log[id] EXCEPT !.seen =
                             Some(IF @ = None THEN now_ ELSE Max(Unwrap(@), now_))]]

\* *counts.entry(pick).or_insert(0) += 1
count_pick(r) == IF r = None THEN counts ELSE [counts EXCEPT ![Unwrap(r)] = @ + 1]

(***************************************************************************)
(* reference_weighted_order of account_scheduler_tests.rs                  *)
(***************************************************************************)
\* lines 119-123: State {weight, current: 0.0} per identity
ref_init(w) == [name \in DOMAIN w |-> [weight |-> w[name], current |-> 0]]

\* line 119
ref_total_weight(states) == SumOver(DOMAIN states, [name \in DOMAIN states |-> states[name].weight])

\* line 130: state.current += state.weight, for every identity
ref_accumulate(states) ==
    [name \in DOMAIN states |-> [states[name] EXCEPT !.current = @ + states[name].weight]]

RECURSIVE ref_best(_, _, _, _)
\* lines 127-135: first strict maximum of current in iteration order
ref_best(order, states, k, best_name) ==
    IF k > Len(order) THEN best_name
    ELSE IF best_name = None \/ states[order[k]].current > states[Unwrap(best_name)].current
         THEN ref_best(order, states, k + 1, Some(order[k]))
         ELSE ref_best(order, states, k + 1, best_name)

\* the identities the reference can push next: one per iteration order
ref_winners(states) ==
    {Unwrap(ref_best(order, ref_accumulate(states), 1, None)) : order \in Orders(DOMAIN states)}

\* lines 126-140: one iteration in which `winner` is pushed
ref_step(states, winner) ==
    [ref_accumulate(states) EXCEPT ![winner].current = @ - ref_total_weight(states)]

(***************************************************************************)
(* AccountScheduler::record_outcome                                        *)
(***************************************************************************)
Success == [kind |-> "Success", resume_at |-> None]
RateLimited(resume_at) == [kind |-> "RateLimited", resume_at |-> resume_at]
Outcomes == {Success, RateLimited(None)} \cup {RateLimited(Some(t)) : t \in ResumeTimes}

\* mutant: Success leaves the cooldown map as it is
clear_cooldown_noop(cd, account_id) == cd

\* line 163: self.cooldowns.remove(account_id)
clear_cooldown(cd, account_id) == [id \in DOMAIN cd \ {account_id} |-> cd[id]]

\* line 169: self.cooldowns.insert(account_id, resume)
set_cooldown(cd, account_id, resume) ==
    [id \in DOMAIN cd \cup {account_id} |-> IF id = account_id THEN resume ELSE cd[id]]

\* lines 166-168: resume_at, or Utc::now() + DEFAULT_COOLDOWN_SECS without one;
\* wall is what Utc::now() returns
resume_time(resume_at, wall) ==
    IF resume_at = None THEN wall + DEFAULT_COOLDOWN_SECS ELSE Unwrap(resume_at)

\* wall is what Utc::now() returns while the outcome is recorded
record_outcome(account_id, outcome, wall) ==
    /\ IF outcome.kind = "Success"
       THEN cooldowns' = clear_cooldown(cooldowns, account_id)
       ELSE cooldowns' = set_cooldown(cooldowns, account_id,
                                      resume_time(outcome.resume_at, wall))
    /\ op' = "record_outcome"
    /\ ret' = None
    /\ log' = [id \in DOMAIN log \cup {account_id} |->
                 IF id = account_id
                 THEN [outcome |-> outcome, at |-> wall, seen |-> None]
                 ELSE log[id]]
    /\ UNCHANGED <<weights, list_ok, calls, now>>

(***************************************************************************)
(* Configurations: catalogue and telemetry                                 *)
(***************************************************************************)
\* catalogues over the ids in D
Catalogues(D) == {c \in [D -> UNION {AccountOptions(id) : id \in D}] :
                     \A id \in D : c[id] \in AccountOptions(id)}

AllCatalogues == UNION {Catalogues(D) : D \in SUBSET AccountIds}

\* telemetry for catalogue c: a record from S for some of its accounts
Telemetries(c, S) == UNION {[D -> S] : D \in SUBSET DOMAIN c}

\* number of processes that call into one code home at the same time
MaxProcs == 2

\* a fresh scheduler: AccountScheduler::new
Fresh ==
    /\ cooldowns = EmptyMap
    /\ weights = EmptyMap
    /\ op = "new"
    /\ now = 0
    /\ ret = None
    /\ list_ok = TRUE
    /\ calls = 0
    /\ log = EmptyMap
    /\ hist = EmptyMap
    /\ counts = [id \in AccountIds |-> 0]
    /\ store = <<>>
    /\ active = None
    /\ nextId = 0
    /\ last = [op |-> "none", arg |-> None, ret |-> None]
    /\ registry = <<>>
    /\ dirs = EmptyMap
    /\ slot_last = [op |-> "none", arg |-> None, ret |-> None]
    /\ removed = {}
    /\ seen = [slots |-> {}, labels |-> EmptyMap]
    /\ procs = [p \in 1..MaxProcs |-> [pc |-> "idle", data |-> None, arg |-> None, ret |-> None]]

(***************************************************************************)
(* Spec: one scheduler, called at arbitrary times, outcomes recorded       *)
(***************************************************************************)
MaxCalls == 3

\* catalogues Spec starts from: two accounts each
Scenarios ==
    {[id \in {a[1].id, a[2].id} |-> IF id = a[1].id THEN a[1] ELSE a[2]] : a \in
        {<<ApiKeyAccount("acct-1", Some("sk-1")), ChatGPTAccount("slot-b", Some("u2"))>>,
         <<ApiKeyAccount("acct-1", Some("")), ApiKeyAccount("slot-a", None)>>,
         <<ChatGPTAccount("acct-1", Some("u1")), ChatGPTAccount("slot-a", Some("u1"))>>,
         <<ChatGPTAccount("slot-a", Some("u1")), ChatGPTAccount("slot-b", Some("u1"))>>,
         <<ChatGPTAccount("slot-a", Some("u1")), ChatGPTAccount("slot-b", Some("u2"))>>,
         <<ApiKeyAccount("slot-a", None), ChatGPTAccount("slot-b", None)>>}}

\* telemetry has been recorded for the slot accounts, not for explicit ones
Init ==
    /\ accounts \in Scenarios
    /\ snapshots \in {[id \in DOMAIN accounts \cap SlotIds |-> snap] :
                          snap \in ResettingSnapshots}
    /\ Fresh
    /\ refStates = EmptyMap

NextAccount ==
    /\ calls < MaxCalls
    /\ \E now_ \in Times, ok \in BOOLEAN : next_account(now_, ok)
    /\ calls' = calls + 1
    /\ UNCHANGED <<accounts, snapshots, counts, refStates, hist>>
    /\ UNCHANGED <<container_vars, slot_vars, procs>>

\* outcomes are reported for catalogued accounts; the wall clock is read only
\* for an outcome without resume time
RecordOutcome ==
    /\ \E account_id \in DOMAIN accounts, outcome \in Outcomes :
          \E wall \in IF outcome = RateLimited(None) THEN Times ELSE {0} :
             record_outcome(account_id, outcome, wall)
    /\ UNCHANGED <<accounts, snapshots, counts, refStates, hist>>
    /\ UNCHANGED <<container_vars, slot_vars, procs>>

Next == NextAccount \/ RecordOutcome

Spec == Init /\ [][Next]_vars

(***************************************************************************)
(* SpecOutcomes: Spec on two catalogues, with hist kept                    *)
(***************************************************************************)
OutcomeScenarios ==
    {c \in Scenarios :
        \/ c = [id \in {"acct-1", "slot-b"} |->
                   IF id = "acct-1" THEN ApiKeyAccount(id, Some("sk-1"))
                   ELSE ChatGPTAccount(id, Some("u2"))]
        \/ c = [id \in {"slot-a", "slot-b"} |-> ChatGPTAccount(id, Some("u1"))]}

OutcomesInit == Init /\ accounts \in OutcomeScenarios

OutcomesNextAccount ==
    /\ calls < MaxCalls
    /\ \E now_ \in Times, ok \in BOOLEAN : next_account(now_, ok)
    /\ calls' = calls + 1
    /\ UNCHANGED <<accounts, snapshots, counts, refStates, hist>>
    /\ UNCHANGED <<container_vars, slot_vars, procs>>

OutcomesRecordOutcome ==
    /\ \E account_id \in DOMAIN accounts, outcome \in Outcomes :
          \E wall \in IF outcome = RateLimited(None) THEN Times ELSE {0} :
             /\ record_outcome(account_id, outcome, wall)
             /\ hist' = [id \in DOMAIN hist \cup {account_id} |->
                           IF id = account_id
                           THEN [sched |-> IF outcome = RateLimited(None) /\ calls > 0
                                           THEN Some(now) ELSE None,
                                 cleared |-> IF outcome = Success
                                                /\ account_id \in DOMAIN cooldowns
                                             THEN Some(cooldowns[account_id]) ELSE None]
                           ELSE hist[id]]
    /\ UNCHANGED <<accounts, snapshots, counts, refStates>>
    /\ UNCHANGED <<container_vars, slot_vars, procs>>

SpecOutcomes == OutcomesInit /\ [][OutcomesNextAccount \/ OutcomesRecordOutcome]_vars

(***************************************************************************)
(* SpecFixed: the tests' loop -- a fresh scheduler over a fixed catalogue  *)
(* and telemetry, next_account(now) called repeatedly with the same now,   *)
(* no outcome recorded; the picks are tallied and the reference            *)
(* round-robin is stepped alongside.                                       *)
(***************************************************************************)
MaxFixedPicks == 52

FixedInit ==
    /\ accounts \in AllCatalogues
    /\ snapshots \in Telemetries(accounts, SteadySnapshots)
    /\ Fresh
    /\ refStates = ref_init(totals_by_identity(accounts, snapshots, EmptyMap, now))

FixedPick ==
    /\ calls < MaxFixedPicks
    /\ next_account(now, TRUE)
    /\ calls' = calls + 1
    /\ counts' = count_pick(ret')
    /\ refStates' = IF ret' = None THEN refStates
                    ELSE ref_step(refStates, slot_identity(accounts[Unwrap(ret')]))
    /\ UNCHANGED <<accounts, snapshots, hist>>
    /\ UNCHANGED <<container_vars, slot_vars, procs>>

SpecFixed == FixedInit /\ [][FixedPick]_vars

(***************************************************************************)
(* SpecLive: next_account(now) is called again and again on a fixed        *)
(* catalogue and telemetry with the same now; nothing is tallied.  The     *)
(* caller keeps calling: weak fairness of the call.                        *)
(***************************************************************************)
\* telemetry of accounts near or at the end of their quota
LiveSnapshots == {Snapshot(90, 1, None), Snapshot(100, 1, None)}

LiveInit ==
    /\ accounts \in AllCatalogues
    /\ snapshots \in [DOMAIN accounts -> LiveSnapshots]
    /\ Fresh
    /\ refStates = EmptyMap

\* calls holds the parity of the number of calls, so that a call that leaves
\* the scheduler as it found it is still a step
LivePick ==
    /\ next_account(now, TRUE)
    /\ calls' = 1 - calls
    /\ UNCHANGED <<accounts, snapshots, counts, refStates, hist>>
    /\ UNCHANGED <<container_vars, slot_vars, procs>>

SpecLive == LiveInit /\ [][LivePick]_vars /\ WF_vars(LivePick)

(***************************************************************************)
(* auth_accounts.rs: the accounts file (explicitly registered accounts)    *)
(* A record is [id, mode, openai_api_key, tokens]; label and timestamps    *)
(* take no part in matching, removal or the active pointer.                *)
(***************************************************************************)
\* id_token.email values; the second differs from the first in case and
\* surrounding blanks only
Emails == {"user@x", " User@X "}

\* email.trim().to_ascii_lowercase()
normalize_email(email) == IF email = " User@X " THEN "user@x" ELSE email

\* TokenData: account_id and id_token.email, both Option<String>
TokenData(account_id, email) == [account_id |-> account_id, email |-> email]

\* the token bundles logins arrive with
TokenInputs ==
    {TokenData(Some("u1"), Some("user@x")), TokenData(Some("u1"), Some(" User@X ")),
     TokenData(Some("u2"), Some("user@x")), TokenData(None, Some("user@x")),
     TokenData(Some("u1"), None)}

\* the API keys entered
ApiKeys == {"sk-1", "sk-2"}

\* mutant: no stored record matches
match_chatgpt_never(existing, tokens) == FALSE

\* mutant: equal emails are enough
match_chatgpt_by_email(existing, tokens) ==
    /\ existing.mode = "ChatGPT"
    /\ existing.tokens # None
    /\ Unwrap(existing.tokens).email # None
    /\ tokens.email # None
    /\ normalize_email(Unwrap(Unwrap(existing.tokens).email))
           = normalize_email(Unwrap(tokens.email))

\* mutant: equal account identifiers are enough
match_chatgpt_by_account_id(existing, tokens) ==
    /\ existing.mode = "ChatGPT"
    /\ existing.tokens # None
    /\ Unwrap(existing.tokens).account_id # None
    /\ tokens.account_id # None
    /\ Unwrap(Unwrap(existing.tokens).account_id) = Unwrap(tokens.account_id)

match_chatgpt_account(existing, tokens) ==
    /\ existing.mode = "ChatGPT"
    /\ existing.tokens # None
    /\ LET existing_tokens == Unwrap(existing.tokens)
           account_id_matches ==
               /\ existing_tokens.account_id # None
               /\ tokens.account_id # None
               /\ Unwrap(existing_tokens.account_id) = Unwrap(tokens.account_id)
           email_matches ==
               /\ existing_tokens.email # None
               /\ tokens.email # None
               /\ normalize_email(Unwrap(existing_tokens.email))
                      = normalize_email(Unwrap(tokens.email))
       IN account_id_matches /\ email_matches

match_api_key_account(existing, api_key) ==
    /\ existing.mode = "ApiKey"
    /\ existing.openai_api_key # None
    /\ Unwrap(existing.openai_api_key) = api_key

\* iter().position(test), given the indices whose element passes the test:
\* the first of them, 0 for None
Position(hits) ==
    IF hits = {} THEN 0 ELSE CHOOSE i \in hits : \A j \in hits : i <= j

\* next_id(): the n-th identifier handed out
next_id(n) == <<"uuid", n>>

\* mutant: the new record takes the place of the stored ones
push_account_replace(accts, new_account) == <<new_account>>

\* data.accounts.push(new_account)
push_account(accts, new_account) == Append(accts, new_account)

\* mutant: the incoming label replaces the stored one also when it is None
merge_label_always(existing, incoming) == incoming

\* upsert_account on a match: the stored label gives way to a label that is Some
merge_label(existing, incoming) == IF incoming # None THEN incoming ELSE existing

\* upsert_account: the file's records and the stored record afterwards; wall
\* is what now() returns.  last_refresh and last_used_at are left out.
upsert_account(accts, new_account, wall) ==
    LET matches(acc) ==
            IF new_account.mode = "ChatGPT"
            THEN new_account.tokens # None
                     /\ match_chatgpt_account(acc, Unwrap(new_account.tokens))
            ELSE new_account.openai_api_key # None
                     /\ match_api_key_account(acc, Unwrap(new_account.openai_api_key))
        idx == Position({i \in 1..Len(accts) : matches(accts[i])})
        created == [new_account EXCEPT
                       !.created_at = IF @ = None THEN Some(wall) ELSE @]
        merged == [accts[idx] EXCEPT
                      !.label = merge_label(@, new_account.label),
                      !.tokens = IF new_account.tokens # None THEN new_account.tokens ELSE @,
                      !.openai_api_key = IF new_account.openai_api_key # None
                                         THEN new_account.openai_api_key ELSE @]
    IN IF idx # 0
       THEN [accounts |-> [accts EXCEPT ![idx] = merged], account |-> merged]
       ELSE [accounts |-> push_account(accts, created), account |-> created]

\* ids of the records in the file
StoredIds == {store[i].id : i \in 1..Len(store)}

\* upsert_chatgpt_account / upsert_api_key_account after building new_account
\* with make_active the stored record is touched: touch_account gives it a
\* created_at if it has none
upsert(op_name, arg, new_account, wall, make_active) ==
    \E r \in {upsert_account(store, new_account, wall)} :
        /\ store' = [i \in 1..Len(r.accounts) |->
                         IF make_active /\ r.accounts[i].id = r.account.id
                                        /\ r.accounts[i].created_at = None
                         THEN [r.accounts[i] EXCEPT !.created_at = Some(wall)]
                         ELSE r.accounts[i]]
        /\ nextId' = IF r.account.id = new_account.id THEN nextId + 1 ELSE nextId
        /\ active' = IF make_active THEN Some(r.account.id) ELSE active
        /\ last' = [op |-> op_name, arg |-> arg, ret |-> Some(r.account.id),
                    label |-> new_account.label]

upsert_chatgpt_account(tokens, label, wall, make_active) ==
    upsert("upsert_chatgpt_account", tokens,
           [id |-> next_id(nextId + 1), mode |-> "ChatGPT", label |-> label,
            openai_api_key |-> None, tokens |-> Some(tokens), created_at |-> None],
           wall, make_active)

upsert_api_key_account(api_key, label, wall, make_active) ==
    upsert("upsert_api_key_account", api_key,
           [id |-> next_id(nextId + 1), mode |-> "ApiKey", label |-> label,
            openai_api_key |-> Some(api_key), tokens |-> None, created_at |-> None],
           wall, make_active)

\* set_active_account_id: the pointer is set whether or not the id is stored
set_active_account_id(account_id) ==
    /\ active' = account_id
    /\ last' = [op |-> "set_active_account_id", arg |-> account_id,
                ret |-> IF account_id # None /\ Unwrap(account_id) \in StoredIds
                        THEN account_id ELSE None]
    /\ UNCHANGED <<store, nextId>>

\* mutant: removal leaves the active pointer alone
active_after_remove_keep(act, account_id) == act

\* remove_account: the active pointer afterwards
active_after_remove(act, account_id) ==
    IF act # None /\ Unwrap(act) = account_id THEN None ELSE act

remove_account(account_id) ==
    LET is_it(acc) == acc.id = account_id
        pos == Position({i \in 1..Len(store) : is_it(store[i])})
    IN /\ store' = IF pos = 0 THEN store
                   ELSE [i \in 1..(Len(store) - 1) |->
                            IF i < pos THEN store[i] ELSE store[i + 1]]
       /\ active' = active_after_remove(active, account_id)
       /\ last' = [op |-> IF active # None /\ Unwrap(active) = account_id
                          THEN "remove_account (active)" ELSE "remove_account",
                   arg |-> account_id,
                   ret |-> IF pos = 0 THEN None ELSE Some(account_id)]
       /\ UNCHANGED nextId

get_active_account_id ==
    /\ last' = [op |-> "get_active_account_id", arg |-> None, ret |-> active]
    /\ UNCHANGED <<store, active, nextId>>

\* find_account with no slot directories on disk
find_account(account_id) ==
    /\ last' = [op |-> "find_account", arg |-> account_id,
                ret |-> IF account_id \in StoredIds THEN Some(account_id) ELSE None]
    /\ UNCHANGED <<store, active, nextId>>

\* what discover_slot_accounts of auth_accounts.rs gives list_accounts: an
\* error (None), or the ids of the slot-derived accounts
SlotContributions == {None, Some(<<>>), Some(<<"slot-a">>), Some(<<"slot-a", "slot-b">>)}

\* mutant: a failed discovery fails the listing
list_accounts_strict(readable, discovered) ==
    /\ last' = [op |-> "list_accounts",
                arg |-> [readable |-> readable, discovered |-> discovered],
                ret |-> IF ~readable \/ discovered = None THEN None
                        ELSE Some([i \in 1..Len(store) |-> store[i].id]
                                      \o Unwrap(discovered))]
    /\ UNCHANGED <<store, active, nextId>>

\* list_accounts; its io::Result is held as an Option, None for Err.
\* readable: the accounts file is absent or parses (read_accounts_file
\* succeeds); otherwise the `?` returns the error.  A failed discovery is
\* logged and contributes nothing.
list_accounts(readable, discovered) ==
    /\ last' = [op |-> "list_accounts",
                arg |-> [readable |-> readable, discovered |-> discovered],
                ret |-> IF ~readable THEN None
                        ELSE Some([i \in 1..Len(store) |-> store[i].id]
                                      \o (IF discovered = None THEN <<>>
                                          ELSE Unwrap(discovered)))]
    /\ UNCHANGED <<store, active, nextId>>

(***************************************************************************)
(* SpecContainer: calls on the accounts file of an empty code home         *)
(***************************************************************************)
\* number of records ever created; a call that would create one more is not
\* made
MaxRecords == 3

\* the ids callers pass: those handed out so far and one that never was
CallerIds == {next_id(n) : n \in 0..nextId}

ContainerInit ==
    /\ Fresh
    /\ accounts = EmptyMap
    /\ snapshots = EmptyMap
    /\ refStates = EmptyMap

\* the logins of SpecContainer carry no label
UpsertChatgptAccount ==
    /\ \E tokens \in TokenInputs, make_active \in BOOLEAN :
          upsert_chatgpt_account(tokens, None, 0, make_active)
    /\ nextId' <= MaxRecords
    /\ UNCHANGED <<scheduler_vars, slot_vars, procs>>

UpsertApiKeyAccount ==
    /\ \E api_key \in ApiKeys, make_active \in BOOLEAN :
          upsert_api_key_account(api_key, None, 0, make_active)
    /\ nextId' <= MaxRecords
    /\ UNCHANGED <<scheduler_vars, slot_vars, procs>>

SetActiveAccountId ==
    /\ \E account_id \in {None} \cup {Some(id) : id \in CallerIds} :
          set_active_account_id(account_id)
    /\ UNCHANGED <<scheduler_vars, slot_vars, procs>>

RemoveAccount ==
    /\ \E account_id \in CallerIds : remove_account(account_id)
    /\ UNCHANGED <<scheduler_vars, slot_vars, procs>>

GetActiveAccountId == get_active_account_id /\ UNCHANGED <<scheduler_vars, slot_vars, procs>>

FindAccount ==
    /\ \E account_id \in CallerIds : find_account(account_id)
    /\ UNCHANGED <<scheduler_vars, slot_vars, procs>>

ListAccounts ==
    /\ \E readable \in BOOLEAN :
       \E discovered \in SlotContributions : list_accounts(readable, discovered)
    /\ UNCHANGED <<scheduler_vars, slot_vars, procs>>

ContainerNext ==
    \/ UpsertChatgptAccount
    \/ UpsertApiKeyAccount
    \/ SetActiveAccountId
    \/ RemoveAccount
    \/ GetActiveAccountId
    \/ FindAccount
    \/ ListAccounts

SpecContainer == ContainerInit /\ [][ContainerNext]_vars

(***************************************************************************)
(* account_slots.rs: the slot registry and the slot directories            *)
(* A registry entry is [id, label, path]; the path is the directory's name *)
(* relative to the code home.  Directories are the top-level ones of the   *)
(* code home whose name begins with "slot"; a directory is discovered when *)
(* it holds a credential file.  The default slot's own credential file is  *)
(* absent, and credential files carry no e-mail, so a discovered slot is   *)
(* labelled by slot_label.  Among the slots whose id is not slot-default   *)
(* the listing keeps the registry's order.  remove_dir_all succeeds.       *)
(***************************************************************************)
DEFAULT_SLOT_ID == "slot-default"
SLOT_PREFIX == "slot"

\* the code home itself, as a relative path
CodeHome == "."

\* labels callers pass to add_slot and rename_slot
Labels == {"SlotX", " SlotX ", "default", "  "}

\* names of directories created outside add_slot, with a credential file
UserDirs == {"slotx"}

\* str::trim
trim(value) == CASE value = " SlotX " -> "SlotX" [] value = "  " -> "" [] OTHER -> value

\* to_ascii_lowercase
to_ascii_lowercase(value) == CASE value = "SlotX" -> "slotx" [] OTHER -> value

\* sanitize_slot_component: lower-case alphanumerics, other runs become one
\* hyphen, hyphens trimmed; identifiers and the directory names of UserDirs
\* are left as they are
sanitize_slot_component(component) ==
    CASE component = "SlotX" -> "slotx"
      [] component \in {"slot.x", "slot_x"} -> "slot-x"
      [] OTHER -> component

\* make_slot_id_slug for one component
make_slot_id_slug(component) ==
    LET part == sanitize_slot_component(component)
    IN SLOT_PREFIX \o "-" \o (IF part = "" THEN "slot" ELSE part)

\* slot_label for one component
slot_label(component) == "Slot " \o component

RECURSIVE unique_from(_, _, _)
unique_from(base, seen_ids, counter) ==
    LET candidate == base \o "-" \o ToString(counter)
    IN IF candidate \notin seen_ids THEN candidate
       ELSE unique_from(base, seen_ids, counter + 1)

\* mutant: the base is handed out whether or not it is taken
ensure_unique_slot_id_base(base, seen_ids) == base

\* ensure_unique_slot_id: the id handed out (the caller adds it to seen_ids)
ensure_unique_slot_id(base, seen_ids) ==
    IF base \notin seen_ids THEN base ELSE unique_from(base, seen_ids, 2)

\* the label cleaned by add_slot and rename_slot: an Option
clean_label(label) ==
    IF label = None THEN None
    ELSE IF trim(Unwrap(label)) = "" THEN None ELSE Some(trim(Unwrap(label)))

\* resolve_entry_path, relative to the code home
resolve_entry_path(entry) == IF entry.path = None THEN entry.id ELSE Unwrap(entry.path)

\* SlotRegistryFile::ids
registry_ids(slots) == {slots[i].id : i \in 1..Len(slots)}

\* scan_slot_dirs: the discovered directories in the order read_dir yields
\* them, each [id, path, label]
RECURSIVE scan_from(_, _, _)
scan_from(order, k, seen_ids) ==
    IF k > Len(order) THEN <<>>
    ELSE LET id == ensure_unique_slot_id(make_slot_id_slug(order[k]), seen_ids)
         IN <<[id |-> id, path |-> order[k], label |-> Some(slot_label(order[k]))]>>
                \o scan_from(order, k + 1, seen_ids \cup {id})

scan_slot_dirs(order) == scan_from(order, 1, {})

\* the directories a scan discovers
Discoverable == {d \in DOMAIN dirs : dirs[d]}

\* mutant: the registry is rebuilt from what the scan discovered
hydrate_from_scan(slots, discovered, k) ==
    [i \in 1..Len(discovered) |->
        [id |-> discovered[i].id, label |-> discovered[i].label,
         path |-> Some(discovered[i].path)]]

\* SlotRegistryFile::hydrate_from_filesystem from the k-th discovered
\* directory on; known_ids are the registry's ids, which grow with each push
RECURSIVE hydrate_from_filesystem(_, _, _)
hydrate_from_filesystem(slots, discovered, k) ==
    IF k > Len(discovered) THEN slots
    ELSE LET slot == discovered[k]
         IN IF \E i \in 1..Len(slots) : resolve_entry_path(slots[i]) = slot.path
            THEN hydrate_from_filesystem(slots, discovered, k + 1)
            ELSE IF slot.id \in registry_ids(slots)
            THEN hydrate_from_filesystem(slots, discovered, k + 1)
            ELSE hydrate_from_filesystem(
                     Append(slots, [id |-> slot.id, label |-> slot.label,
                                    path |-> Some(slot.path)]),
                     discovered, k + 1)

\* AccountSlot::new
AccountSlot(id, label, path, is_default, ds) ==
    [id |-> id, label |-> label, path |-> path,
     has_auth_file |-> path \in DOMAIN ds /\ ds[path], is_default |-> is_default]

default_slot(ds) ==
    AccountSlot(DEFAULT_SLOT_ID, Some(slot_label("default")), CodeHome, TRUE, ds)

\* SlotRegistryFile::to_slots
to_slots(slots, ds) ==
    [i \in 1..Len(slots) |->
        AccountSlot(slots[i].id, slots[i].label, resolve_entry_path(slots[i]), FALSE, ds)]

\* the lower-cased labels that sort before the default slot's "slot default"
SortsBeforeDefaultLabel(lowered) == lowered \in {"default", "slot default"}

\* slot_sort_key's first two parts put slot before the synthetic default slot,
\* which the stable sort meets last
before_default(slot) ==
    /\ slot.id = DEFAULT_SLOT_ID
    /\ SortsBeforeDefaultLabel(
           to_ascii_lowercase(IF slot.label = None THEN slot.id ELSE Unwrap(slot.label)))

\* the listing: registry slots and the default slot, sorted by slot_sort_key
sorted_slots(slots, ds) ==
    LET listed == to_slots(slots, ds)
        early == SelectSeq(listed, before_default)
        same_id_late(slot) == slot.id = DEFAULT_SLOT_ID /\ ~before_default(slot)
        others(slot) == slot.id # DEFAULT_SLOT_ID
    IN early \o <<default_slot(ds)>> \o SelectSeq(listed, same_id_late)
             \o SelectSeq(listed, others)

\* list_slots with read_dir yielding the discoverable directories in `order`
list_slots(order) ==
    \E hydrated \in {hydrate_from_filesystem(registry, scan_slot_dirs(order), 1)} :
        /\ registry' = hydrated
        /\ slot_last' = [op |-> "list_slots", arg |-> None,
                         ret |-> Some(sorted_slots(hydrated, dirs))]
        /\ UNCHANGED <<dirs, removed>>

\* add_slot once SlotRegistryFile::load has returned `loaded`
add_slot_on(loaded, label, order) ==
    LET discovered == scan_slot_dirs(order)
        existing_ids == registry_ids(loaded)
                            \cup {discovered[i].id : i \in 1..Len(discovered)}
        cleaned_label == clean_label(label)
        slug == IF cleaned_label = None THEN ""
                ELSE sanitize_slot_component(Unwrap(cleaned_label))
        slug_component == IF slug = "" THEN "custom" ELSE slug
        base_id == make_slot_id_slug(slug_component)
        unique_id == ensure_unique_slot_id(base_id, existing_ids)
        created == [d \in DOMAIN dirs \cup {unique_id} |->
                       IF d \in DOMAIN dirs THEN dirs[d] ELSE FALSE]
    IN /\ dirs' = created
       /\ registry' = Append(loaded, [id |-> unique_id, label |-> cleaned_label,
                                      path |-> Some(unique_id)])
       /\ slot_last' = [op |-> "add_slot", arg |-> label,
                        ret |-> Some(AccountSlot(unique_id, cleaned_label, unique_id,
                                                 FALSE, created))]
       /\ removed' = removed \ {unique_id}

\* add_slot
add_slot(label, order) == add_slot_on(registry, label, order)

\* remove_slot: fs::remove_dir_all(path) if the path exists
dirs_after_remove(ds, path) == [d \in DOMAIN ds \ {path} |-> ds[d]]

\* remove_slot
remove_slot(slot_id) ==
    LET is_it(entry) == entry.id = slot_id
        idx == IF slot_id = DEFAULT_SLOT_ID THEN 0 ELSE Position({i \in 1..Len(registry) : is_it(registry[i])})
    IN IF idx = 0
       THEN /\ slot_last' = [op |-> "remove_slot", arg |-> slot_id, ret |-> None]
            /\ UNCHANGED <<registry, dirs, removed>>
       ELSE LET entry == registry[idx]
                path == resolve_entry_path(entry)
            IN /\ registry' = [i \in 1..(Len(registry) - 1) |->
                                  IF i < idx THEN registry[i] ELSE registry[i + 1]]
               /\ dirs' = dirs_after_remove(dirs, path)
               /\ slot_last' = [op |-> "remove_slot", arg |-> slot_id,
                                ret |-> Some(AccountSlot(entry.id, entry.label, path, FALSE,
                                                         dirs_after_remove(dirs, path)))]
               /\ removed' = removed \cup {slot_id}

\* slot_auth_dir: the directory of the entry with the id, or the directory
\* named by the id when the registry has no such entry, is created if absent
slot_auth_dir(slot_id) ==
    LET is_it(entry) == entry.id = slot_id
        idx == Position({i \in 1..Len(registry) : is_it(registry[i])})
        path == IF slot_id = DEFAULT_SLOT_ID THEN CodeHome
                ELSE IF idx = 0 THEN slot_id
                ELSE resolve_entry_path(registry[idx])
    IN /\ dirs' = IF slot_id = DEFAULT_SLOT_ID THEN dirs
                  ELSE [d \in DOMAIN dirs \cup {path} |->
                           IF d \in DOMAIN dirs THEN dirs[d] ELSE FALSE]
       /\ slot_last' = [op |-> "slot_auth_dir", arg |-> slot_id, ret |-> Some(path)]
       /\ UNCHANGED <<registry, removed>>

\* mutant: the label is stored as it came
store_label_raw(label) == label

\* rename_slot: the label the entry gets
store_label(label) == clean_label(label)

\* rename_slot
rename_slot(slot_id, new_label) ==
    LET is_it(entry) == entry.id = slot_id
        idx == IF slot_id = DEFAULT_SLOT_ID THEN 0 ELSE Position({i \in 1..Len(registry) : is_it(registry[i])})
    IN IF idx = 0
       THEN /\ slot_last' = [op |-> "rename_slot", arg |-> <<slot_id, new_label>>, ret |-> None]
            /\ UNCHANGED <<registry, dirs, removed>>
       ELSE LET entry == [registry[idx] EXCEPT !.label = store_label(new_label)]
            IN /\ registry' = [registry EXCEPT ![idx] = entry]
               /\ slot_last' = [op |-> "rename_slot", arg |-> <<slot_id, new_label>>,
                                ret |-> Some(AccountSlot(entry.id, entry.label,
                                                         resolve_entry_path(entry), FALSE, dirs))]
               /\ UNCHANGED <<dirs, removed>>

\* mutant: the account keeps the label the scan derived
override_label_hint(slots, id, hint) == hint

\* the label discover_slot_accounts gives the account with this id: the
\* registry's label for the id (label_map, where a later entry replaces an
\* earlier one with the same id) when it is Some, else the scan's label
override_label(slots, id, hint) ==
    LET with_id == {i \in 1..Len(slots) : slots[i].id = id}
    IN IF with_id = {} THEN hint
       ELSE LET entry == slots[CHOOSE i \in with_id : \A j \in with_id : j <= i]
            IN IF entry.label = None THEN hint ELSE entry.label

\* discover_slot_accounts of account_slots.rs, with read_dir yielding the
\* discoverable directories in `order`.  An account is [id, label, auth],
\* auth naming the directory its credential file was read from; the code
\* home itself holds no credential file, so there is no default account.
\* The result is held as a set: its order (by display key) is left out.
discover_slot_accounts(order) ==
    LET scanned == scan_slot_dirs(order)
        id_of(slot) ==
            LET at_path == {i \in 1..Len(registry) :
                               resolve_entry_path(registry[i]) = slot.path}
            IN IF at_path = {} THEN slot.id
               ELSE registry[CHOOSE i \in at_path : \A j \in at_path : j <= i].id
    IN /\ slot_last' =
              [op |-> "discover_slot_accounts", arg |-> None,
               ret |-> Some({[id |-> id_of(scanned[k]),
                              label |-> override_label(registry, id_of(scanned[k]),
                                                       scanned[k].label),
                              auth |-> scanned[k].path] : k \in 1..Len(scanned)})]
       /\ UNCHANGED <<registry, dirs, removed>>

(***************************************************************************)
(* SpecSlots: calls on the slots of a code home, while credential files    *)
(* and directories are written from outside (logins)                       *)
(***************************************************************************)
\* number of registry entries
MaxSlots == 2

\* the slot ids callers pass: the registered ones and the default slot's
CallerSlotIds == registry_ids(registry) \cup {DEFAULT_SLOT_ID}

SlotsInit ==
    /\ Fresh
    /\ accounts = EmptyMap
    /\ snapshots = EmptyMap
    /\ refStates = EmptyMap

ListSlots ==
    /\ \E order \in Orders(Discoverable) : list_slots(order)
    /\ Len(registry') <= MaxSlots
    /\ UNCHANGED <<scheduler_vars, container_vars, seen, procs>>

AddSlot ==
    /\ Len(registry) < MaxSlots
    /\ \E label \in {None} \cup {Some(l) : l \in Labels} :
       \E order \in Orders(Discoverable) : add_slot(label, order)
    /\ UNCHANGED <<scheduler_vars, container_vars, seen, procs>>

RemoveSlot ==
    /\ \E slot_id \in CallerSlotIds : remove_slot(slot_id)
    /\ UNCHANGED <<scheduler_vars, container_vars, seen, procs>>

RenameSlot ==
    /\ \E slot_id \in CallerSlotIds :
       \E new_label \in {None} \cup {Some(l) : l \in Labels} : rename_slot(slot_id, new_label)
    /\ UNCHANGED <<scheduler_vars, container_vars, seen, procs>>

\* callers pass the ids listed and an id a caller kept from an earlier listing
SlotAuthDir ==
    /\ \E slot_id \in CallerSlotIds \cup {"slot-slotx"} : slot_auth_dir(slot_id)
    /\ UNCHANGED <<scheduler_vars, container_vars, seen, procs>>

\* a login writes a credential file into a registered slot's directory
WriteSlotAuth ==
    /\ \E d \in DOMAIN dirs :
          /\ ~dirs[d]
          /\ dirs' = [dirs EXCEPT ![d] = TRUE]
    /\ removed' = {}
    /\ slot_last' = [op |-> "login", arg |-> None, ret |-> None]
    /\ UNCHANGED registry
    /\ UNCHANGED <<scheduler_vars, container_vars, seen, procs>>

\* a slot directory with a credential file is created by hand
CreateUserDir ==
    /\ \E d \in UserDirs \ DOMAIN dirs :
          dirs' = [x \in DOMAIN dirs \cup {d} |-> IF x = d THEN TRUE ELSE dirs[x]]
    /\ removed' = {}
    /\ slot_last' = [op |-> "mkdir", arg |-> None, ret |-> None]
    /\ UNCHANGED registry
    /\ UNCHANGED <<scheduler_vars, container_vars, seen, procs>>

SlotsNext ==
    \/ ListSlots
    \/ AddSlot
    \/ RemoveSlot
    \/ RenameSlot
    \/ WriteSlotAuth
    \/ CreateUserDir
    \/ /\ \E order \in Orders(Discoverable) : discover_slot_accounts(order)
       /\ UNCHANGED <<scheduler_vars, container_vars, seen, procs>>

SpecSlots == SlotsInit /\ [][SlotsNext]_vars

(***************************************************************************)
(* SpecAuthDir: slots are added, removed and listed while callers ask for  *)
(* the directory of a slot id and logins write credential files            *)
(***************************************************************************)
AuthDirNext ==
    \/ AddSlot
    \/ RemoveSlot
    \/ ListSlots
    \/ SlotAuthDir
    \/ WriteSlotAuth

SpecAuthDir == SlotsInit /\ [][AuthDirNext]_vars

(***************************************************************************)
(* Claims                                                                  *)
(***************************************************************************)
\* the account the last call returned
Returned(id) == op = "next_account" /\ ret = Some(id)

\* the last outcome recorded for id is RateLimited with the explicit resume time T
LimitedUntil(id, T) ==
    id \in DOMAIN log /\ log[id].outcome = RateLimited(Some(T))

\* a next_account call with a time at or past T has been made since the last
\* outcome of id was recorded
CalledPast(id, T) == log[id].seen # None /\ Unwrap(log[id].seen) >= T

\* C1: next_account(now) never returns an account whose cooldown entry has
\* resume_at > now.
C1_CooldownNeverSelected ==
    \A id \in AccountIds :
        Returned(id) => ~(id \in DOMAIN cooldowns /\ cooldowns[id] > now)

\* C1 witness: an account is returned while the other catalogued account is
\* held back by a cooldown that has not run out
C1_Witness ==
    \E id \in DOMAIN accounts, other \in DOMAIN accounts :
        /\ Returned(id)
        /\ other # id
        /\ has_credentials(accounts[other])
        /\ other \in DOMAIN cooldowns /\ cooldowns[other] > now

\* C2: after record_outcome(id, RateLimited{resume_at: T}) with no later
\* outcome for id, id is not returned by next_account as long as no call with
\* a time t >= T has been made; once such a call has been made, id has no
\* cooldown left and is a candidate again.
C2_SkippedUntilResume ==
    \A id \in AccountIds : \A T \in ResumeTimes :
        LimitedUntil(id, T) =>
            /\ Returned(id) => CalledPast(id, T)
            /\ CalledPast(id, T) =>
                  /\ id \notin DOMAIN cooldowns
                  /\ (id \in DOMAIN accounts /\ has_credentials(accounts[id]))
                        => id \in eligible_ids(accounts, cooldowns, now)

\* C2 witness: a rate-limited account is returned again by a call made at its
\* resume time
C2_Witness ==
    \E id \in AccountIds : \E T \in ResumeTimes :
        LimitedUntil(id, T) /\ Returned(id) /\ now = T

\* ---- the tests' loop (SpecFixed) ----

\* summed weight per eligible identity of the fixed configuration
FixedTotals == totals_by_identity(accounts, snapshots, EmptyMap, now)

\* how often an account of identity i has been returned
IdentityCount(i) ==
    SumOver(members(accounts, eligible_ids(accounts, EmptyMap, now), i), counts)

\* exactly two eligible identities, of equal weight
TwoEqualIdentities ==
    /\ Cardinality(DOMAIN FixedTotals) = 2
    /\ \A i, j \in DOMAIN FixedTotals : FixedTotals[i] = FixedTotals[j]

\* C3: with exactly two eligible identities of equal weight, after 2N picks
\* each has been returned N times, and at every prefix the two counts differ
\* by at most 1 (an identity with one eligible account stands for that
\* account).
C3_EqualWeightsAlternate ==
    TwoEqualIdentities =>
        \A i, j \in DOMAIN FixedTotals :
            /\ IdentityCount(i) - IdentityCount(j) <= 1
            /\ calls % 2 = 0 => IdentityCount(i) = IdentityCount(j)
            /\ IdentityCount(i) + IdentityCount(j) = calls \/ i = j

\* C3 witness: two single-account identities of equal weight after four picks
C3_Witness ==
    /\ TwoEqualIdentities
    /\ Cardinality(DOMAIN accounts) = 2
    /\ calls = 4
    /\ \A id \in DOMAIN accounts : counts[id] = 2

\* identity i has twice the weight of identity j, and there is no other
TwiceTheWeight(i, j) ==
    /\ DOMAIN FixedTotals = {i, j}
    /\ i # j
    /\ FixedTotals[i] = 2 * FixedTotals[j]

\* C4: with two eligible identities A and B, A twice as heavy as B, after
\* every 3k picks A has been returned 2k times and B k times.
C4_TwoToOne ==
    \A A, B \in DOMAIN FixedTotals :
        (TwiceTheWeight(A, B) /\ calls % 3 = 0) =>
            /\ IdentityCount(A) = 2 * (calls \div 3)
            /\ IdentityCount(B) = calls \div 3

\* C4 witness: after six picks the heavy identity has four, the light one two
C4_Witness ==
    \E A, B \in DOMAIN FixedTotals :
        TwiceTheWeight(A, B) /\ calls = 6 /\ IdentityCount(A) = 4 /\ IdentityCount(B) = 2

\* the last call returned an account: the identity it belongs to
ChosenIdentity == slot_identity(accounts[Unwrap(ret)])

\* counters per identity
Currents(states) == [i \in DOMAIN states |-> states[i].current]

\* C5: the identity chosen by each next_account call is the one the tests'
\* reference round-robin over the collapsed per-identity weights produces at
\* that step: the reference has a single highest counter, and it is the
\* chosen identity's.
C5_MatchesReference ==
    [][(op' = "next_account" /\ ret' # None) =>
           ref_winners(refStates) = {slot_identity(accounts[Unwrap(ret')])}]_vars

\* C5, the part that holds: the chosen identity is among those with the
\* highest reference counter, and the scheduler's counters are the
\* reference's.
C5_AmongReferenceWinners ==
    [][(op' = "next_account" /\ ret' # None) =>
           /\ slot_identity(accounts[Unwrap(ret')]) \in ref_winners(refStates)
           /\ Currents(weights') = Currents(refStates')]_vars

\* C8: A with a quota ratio of 0.10 and B with a quota ratio of 1.0, both
\* eligible, each its own identity, and no other eligible account
CriticalAndHealthy(A, B) ==
    /\ eligible_ids(accounts, EmptyMap, now) = {A, B}
    /\ A # B
    /\ DOMAIN FixedTotals = {slot_identity(accounts[A]), slot_identity(accounts[B])}
    /\ Cardinality(DOMAIN FixedTotals) = 2
    /\ {A, B} \subseteq DOMAIN snapshots
    /\ quota_ratio(snapshots[A], now) = RatioUnit \div 10
    /\ quota_ratio(snapshots[B], now) = RatioUnit

\* C8 as stated: over 20 picks B is returned more often than A, and A is
\* still returned at least once.
C8_CriticalStillServed ==
    \A A, B \in DOMAIN accounts :
        (CriticalAndHealthy(A, B) /\ calls = 20) =>
            counts[B] > counts[A] /\ counts[A] >= 1

\* C8 amended: over 20 picks B is returned every time and A not at all (the
\* weights are 0.01 and 1.0); A is first returned by the 51st pick.
C8_CriticalServedLate ==
    \A A, B \in DOMAIN accounts :
        CriticalAndHealthy(A, B) =>
            /\ calls <= 50 => counts[A] = 0 /\ counts[B] = calls
            /\ calls = 51 => counts[A] = 1 /\ ret = Some(A)

\* C8 witness: the 51st pick returns the critical account for the first time
C8_Witness ==
    \E A, B \in DOMAIN accounts :
        CriticalAndHealthy(A, B) /\ calls = 51 /\ counts[A] = 1 /\ counts[B] = 50

\* ---- repeated calls under fairness (SpecLive) ----

LiveEligible == eligible_ids(accounts, EmptyMap, now)

\* C7 as stated: every eligible account is eventually returned.
C7_EveryAccountReturned ==
    \A id \in AccountIds : (id \in LiveEligible) ~> Returned(id)

\* C7 amended: every eligible identity is eventually chosen, that is, for
\* every eligible account some account of its identity is eventually
\* returned.
C7_EveryIdentityChosen ==
    \A id \in AccountIds :
        (id \in LiveEligible) ~>
            (/\ op = "next_account"
             /\ ret # None
             /\ id \in DOMAIN accounts
             /\ ChosenIdentity = slot_identity(accounts[id]))

\* C7 witness: an account of a shared identity is returned while its partner
\* is eligible too, and another identity is waiting
C7_Witness ==
    \E a, b, c \in LiveEligible :
        /\ a # b
        /\ slot_identity(accounts[a]) = slot_identity(accounts[b])
        /\ slot_identity(accounts[c]) # slot_identity(accounts[a])
        /\ Returned(a)

\* ---- identities and credentials (Spec) ----

\* the accounts the last call considered
Considered == eligible_ids(accounts, cooldowns, now)

\* the token account id of an account, None without tokens
TokenAccountId(id) ==
    IF accounts[id].tokens = None THEN None ELSE Unwrap(accounts[id].tokens).account_id

SharedTokenAccount(a, b) ==
    TokenAccountId(a) # None /\ TokenAccountId(a) = TokenAccountId(b)

\* the accounts a is collapsed with when sharing a token account id is enough
GroupByTokenAccount(a) ==
    {b \in Considered : b = a \/ SharedTokenAccount(a, b)}

\* the accounts a is collapsed with when only slot-derived accounts collapse
GroupBySlotTokenAccount(a) ==
    {b \in Considered :
        b = a \/ (StartsWithSlotPrefix(a) /\ StartsWithSlotPrefix(b) /\ SharedTokenAccount(a, b))}

\* after a call that returned an account, the scheduler's candidates are the
\* groups: one candidate per group, its weight the sum of the group's weights
CandidatesAre(Group(_)) ==
    (op = "next_account" /\ ret # None) =>
        /\ Cardinality(DOMAIN weights) = Cardinality({Group(a) : a \in Considered})
        /\ \A a \in Considered :
               \E i \in DOMAIN weights :
                   weights[i].weight =
                       SumOver(Group(a), [b \in Group(a) |-> slot_weight(snapshots, b, now)])

UsableCredentials(account) ==
    IF account.mode = "ApiKey"
    THEN account.openai_api_key # None /\ Unwrap(account.openai_api_key) # ""
    ELSE account.tokens # None

InCooldown(id) == id \in DOMAIN cooldowns /\ cooldowns[id] > now

\* C9: with the catalogue readable, next_account returns none exactly when no
\* account has usable credentials and is out of cooldown.
C9_NoneIffNothingEligible ==
    (op = "next_account" /\ list_ok) =>
        (ret = None <=>
            ~ \E id \in DOMAIN accounts : UsableCredentials(accounts[id]) /\ ~InCooldown(id))

\* C10: a returned account has usable credentials: a non-empty API key in
\* API-key mode, tokens in session-token mode.
C10_ReturnedHasCredentials ==
    \A id \in DOMAIN accounts : Returned(id) => UsableCredentials(accounts[id])

\* ---- outcomes (Spec) ----

\* the last outcome recorded for id is Success
LastSuccess(id) == id \in DOMAIN log /\ log[id].outcome = Success

\* the step records an outcome for id
Records(id) ==
    /\ op' = "record_outcome"
    /\ id \in DOMAIN log'
    /\ log'[id].seen = None
    /\ id \notin DOMAIN log \/ log[id] # log'[id]

\* C11: record_outcome(id, Success) removes id's cooldown and no other; as
\* long as Success is id's last outcome id has no cooldown, and a next_account
\* call that reads the catalogue has id among its candidates if id has
\* credentials, whatever the resume time the cooldown had.
C11_SuccessClearsCooldown ==
    [][\A id \in AccountIds :
          /\ (Records(id) /\ log'[id].outcome = Success) =>
                 cooldowns' = [o \in DOMAIN cooldowns \ {id} |-> cooldowns[o]]
          /\ (id \in DOMAIN log' /\ log'[id].outcome = Success) =>
                 /\ id \notin DOMAIN cooldowns'
                 /\ (op' = "next_account" /\ list_ok' /\ has_credentials(accounts[id])) =>
                        slot_identity(accounts[id]) \in DOMAIN weights']_vars

\* C11 witness: an account is returned before the resume time of the cooldown
\* that Success removed, while the other account is still in its cooldown
C11_Witness ==
    \E id \in DOMAIN accounts, other \in DOMAIN accounts :
        /\ LastSuccess(id)
        /\ hist[id].cleared # None
        /\ Returned(id)
        /\ now < Unwrap(hist[id].cleared)
        /\ other # id
        /\ other \in DOMAIN cooldowns

\* the last outcome recorded for id is RateLimited without a resume time
LimitedByDefault(id) == id \in DOMAIN log /\ log[id].outcome = RateLimited(None)

\* the scheduler's time when id's last outcome was recorded: the now of the
\* latest next_account call before it
RecordedAt(id) == Unwrap(hist[id].sched)

\* C12: after record_outcome(id, RateLimited) without resume time, recorded
\* when the scheduler's time (the now of its latest call) was s, id is not
\* returned by next_account(t) for t < s + 15s, and a call with t >= s + 15s
\* leaves id without cooldown.
C12_DefaultCooldownFromNow ==
    \A id \in AccountIds :
        (LimitedByDefault(id) /\ hist[id].sched # None) =>
            /\ (Returned(id) => now >= RecordedAt(id) + DEFAULT_COOLDOWN_SECS)
            /\ (op = "next_account" /\ now >= RecordedAt(id) + DEFAULT_COOLDOWN_SECS) =>
                   id \notin DOMAIN cooldowns

\* C12 as the code has it: the 15s count from the wall clock at the time the
\* outcome is recorded.
C12_DefaultCooldownFromWallClock ==
    \A id \in AccountIds :
        LimitedByDefault(id) =>
            /\ (Returned(id) => CalledPast(id, log[id].at + DEFAULT_COOLDOWN_SECS))
            /\ CalledPast(id, log[id].at + DEFAULT_COOLDOWN_SECS) => id \notin DOMAIN cooldowns

\* ---- the accounts file (SpecContainer) ----

\* the step is a call of the named function
Calls(name) == last'.op = name

Removes == Calls("remove_account") \/ Calls("remove_account (active)")

\* two Option<String> emails are the same address
SameEmail(a, b) ==
    IF a = None \/ b = None THEN a = b
    ELSE normalize_email(Unwrap(a)) = normalize_email(Unwrap(b))

\* ids of the records of accts that carry the pair of tokens
IdsForPair(accts, tokens) ==
    {accts[i].id : i \in {j \in 1..Len(accts) :
        /\ accts[j].mode = "ChatGPT"
        /\ accts[j].tokens # None
        /\ Unwrap(accts[j].tokens).account_id = tokens.account_id
        /\ SameEmail(Unwrap(accts[j].tokens).email, tokens.email)}}

\* ids of the records of accts that hold the API key
IdsForKey(accts, api_key) ==
    {accts[i].id : i \in {j \in 1..Len(accts) :
        accts[j].mode = "ApiKey" /\ accts[j].openai_api_key = Some(api_key)}}

\* the call found `before` as the credential's records and left `after`: one
\* record afterwards, the returned id is its id, and it is the id the
\* credential had
Deduplicates(before, after) ==
    /\ Cardinality(after) = 1
    /\ Unwrap(last'.ret) \in after
    /\ before # {} => before = after

\* C13 as stated: every upsert of a credential, whatever was upserted or
\* removed in between, leaves exactly one record for it and returns the id
\* the credential's record already had.
C13_UpsertDeduplicates ==
    [][/\ Calls("upsert_chatgpt_account") =>
              Deduplicates(IdsForPair(store, last'.arg), IdsForPair(store', last'.arg))
       /\ Calls("upsert_api_key_account") =>
              Deduplicates(IdsForKey(store, last'.arg), IdsForKey(store', last'.arg))]_vars

\* the bundle names the account and the email
PairPresent(tokens) == tokens.account_id # None /\ tokens.email # None

\* C13 amended: the same, for token bundles that carry both an account
\* identifier and an email, and for API keys.
C13_UpsertDeduplicatesFullPairs ==
    [][/\ (Calls("upsert_chatgpt_account") /\ PairPresent(last'.arg)) =>
              Deduplicates(IdsForPair(store, last'.arg), IdsForPair(store', last'.arg))
       /\ Calls("upsert_api_key_account") =>
              Deduplicates(IdsForKey(store, last'.arg), IdsForKey(store', last'.arg))]_vars

\* C13 witness: the first credential is upserted again after two others were
\* added and one of them was removed; its record and id are the first ones
C13_Witness ==
    /\ last.op = "upsert_chatgpt_account"
    /\ PairPresent(last.arg)
    /\ last.ret = Some(next_id(1))
    /\ nextId = 3
    /\ Len(store) = 2
    /\ IdsForPair(store, last.arg) = {next_id(1)}

\* the records of accts other than those with the ids in S
Others(accts, S) == {accts[i] : i \in {j \in 1..Len(accts) : accts[j].id \notin S}}

\* C14: an upsert_chatgpt_account whose tokens have the email of a stored
\* record but another account identifier does not return that record's id
\* and leaves that record as it is next to its own.
C14_EmailAloneDoesNotMerge ==
    [][Calls("upsert_chatgpt_account") =>
          \A i \in 1..Len(store) :
              (/\ store[i].mode = "ChatGPT"
               /\ Unwrap(store[i].tokens).email # None
               /\ SameEmail(Unwrap(store[i].tokens).email, last'.arg.email)
               /\ Unwrap(store[i].tokens).account_id # last'.arg.account_id)
              => /\ last'.ret # Some(store[i].id)
                 /\ store[i] \in Others(store', {Unwrap(last'.ret)})]_vars

\* C14 witness: two records with one email and different account identifiers
C14_Witness ==
    /\ last.op = "upsert_chatgpt_account"
    /\ Len(store) = 2
    /\ store[1].tokens = Some(TokenData(Some("u1"), Some("user@x")))
    /\ store[2].tokens = Some(TokenData(Some("u2"), Some("user@x")))
    /\ store[1].id # store[2].id
    /\ last.ret = Some(store[2].id)

\* C15: remove_account(id) leaves no active account if id was the active one
\* and the active pointer as it was otherwise; get_active_account_id returns
\* the pointer.
C15_RemoveClearsActive ==
    [][/\ Removes =>
              active' = IF active = Some(last'.arg) THEN None ELSE active
       /\ Calls("get_active_account_id") => last'.ret = active /\ active' = active]_vars

\* C15 witness: the active account was removed, other records remain, and
\* no account is active
C15_Witness ==
    /\ last.op = "remove_account (active)"
    /\ last.ret # None
    /\ Len(store) >= 1
    /\ active = None

\* C16: a record id in the file stays in the file over every call except
\* remove_account of that id.
C16_NeverRemovedImplicitly ==
    [][\A id \in StoredIds :
          id \in {store'[i].id : i \in 1..Len(store')} \/ (Removes /\ last'.arg = id)]_vars

\* C16 witness: one of three records was removed, the other two are there
C16_Witness ==
    /\ last.op \in {"remove_account", "remove_account (active)"}
    /\ last.ret # None
    /\ Len(store) = 2
    /\ nextId = 3


(***************************************************************************)
(* Claims about the slots (SpecSlots)                                      *)
(***************************************************************************)
\* the last call on the slots was this operation
SlotCall(name) == slot_last.op = name

\* what list_slots would return now, for each order read_dir may yield
Listings ==
    {sorted_slots(hydrate_from_filesystem(registry, scan_slot_dirs(order), 1), dirs) :
        order \in Orders(Discoverable)}

\* the listing has a slot with this id and this label
Shows(listing, id, label) ==
    \E i \in 1..Len(listing) : listing[i].id = id /\ listing[i].label = label

\* the last call was remove_slot or rename_slot on the default slot's id
OnDefaultSlot ==
    \/ SlotCall("remove_slot") /\ slot_last.arg = DEFAULT_SLOT_ID
    \/ SlotCall("rename_slot") /\ slot_last.arg[1] = DEFAULT_SLOT_ID

\* C17: whatever calls were made, the result of list_slots begins with the
\* synthetic default slot (id slot-default, bound to the code home), and
\* remove_slot and rename_slot on slot-default return None
C17_DefaultSlotFirst ==
    /\ SlotCall("list_slots") =>
           /\ Len(Unwrap(slot_last.ret)) >= 1
           /\ Unwrap(slot_last.ret)[1] = default_slot(dirs)
    /\ OnDefaultSlot => slot_last.ret = None

\* the part of C17 the code keeps: the default slot is listed, and a call of
\* remove_slot or rename_slot on slot-default returns None and changes
\* neither the registry nor the directories
C17_DefaultSlotCallsAreNoOps ==
    [][ /\ SlotCall("list_slots")' =>
               \E i \in 1..Len(Unwrap(slot_last'.ret)) :
                   Unwrap(slot_last'.ret)[i] = default_slot(dirs')
        /\ OnDefaultSlot' => slot_last'.ret = None /\ UNCHANGED <<registry, dirs>>
      ]_vars

\* rename_slot on this id changed nothing but that entry's label
OnlyLabelChanged(id) ==
    /\ Len(registry') = Len(registry)
    /\ \A i \in 1..Len(registry) :
           /\ registry'[i].id = registry[i].id
           /\ registry'[i].path = registry[i].path
           /\ registry[i].id # id => registry'[i] = registry[i]
    /\ dirs' = dirs

\* C18 as stated: after add_slot(L) with a non-empty L the listing has the
\* returned id with label L; after rename_slot(id, L2) on a registered id the
\* listing has id with label L2, and only that label changed
C18_LabelsAsGiven ==
    /\ [](/\ SlotCall("add_slot") /\ slot_last.arg # None /\ slot_last.arg # Some("") =>
                 \A listing \in Listings :
                     Shows(listing, Unwrap(slot_last.ret).id, slot_last.arg)
          /\ SlotCall("rename_slot") /\ slot_last.arg[1] \in registry_ids(registry) =>
                 \A listing \in Listings :
                     Shows(listing, slot_last.arg[1], slot_last.arg[2]))
    /\ [][SlotCall("rename_slot")' /\ slot_last'.arg[1] \in registry_ids(registry) =>
              OnlyLabelChanged(slot_last'.arg[1])]_vars

\* the label has a character that is not white space
NonBlank(label) == label # None /\ trim(Unwrap(label)) # ""

\* C18: after add_slot(L) with a non-blank L the listing has the returned id
\* with L trimmed as its label; after rename_slot(id, L2) returns a slot the
\* listing has id with L2 trimmed as its label (no label for a blank or
\* absent L2), and only that entry's label changed
C18_LabelsTrimmed ==
    /\ [](/\ SlotCall("add_slot") /\ NonBlank(slot_last.arg) =>
                 \A listing \in Listings :
                     Shows(listing, Unwrap(slot_last.ret).id,
                           Some(trim(Unwrap(slot_last.arg))))
          /\ SlotCall("rename_slot") /\ slot_last.ret # None =>
                 /\ Unwrap(slot_last.ret).id = slot_last.arg[1]
                 /\ \A listing \in Listings :
                        Shows(listing, slot_last.arg[1],
                              IF NonBlank(slot_last.arg[2])
                              THEN Some(trim(Unwrap(slot_last.arg[2]))) ELSE None))
    /\ [][SlotCall("rename_slot")' /\ slot_last'.ret # None =>
              OnlyLabelChanged(slot_last'.arg[1])]_vars

\* a slot was renamed with a label that has surrounding white space while
\* another entry is registered
C18_Witness ==
    /\ SlotCall("rename_slot")
    /\ slot_last.ret # None
    /\ slot_last.arg[2] = Some(" SlotX ")
    /\ Unwrap(slot_last.ret).label = Some("SlotX")
    /\ Len(registry) = 2

\* C19: once remove_slot has returned a slot for an id, the slot's directory
\* is gone, and no later result of list_slots has the id until add_slot
\* returns it again
C19_RemovedStaysAbsent ==
    /\ SlotCall("remove_slot") /\ slot_last.ret # None =>
           Unwrap(slot_last.ret).path \notin DOMAIN dirs
    /\ SlotCall("list_slots") =>
           \A i \in 1..Len(Unwrap(slot_last.ret)) :
               Unwrap(slot_last.ret)[i].id \notin removed

\* the part of C19 the code keeps: the directory of the removed slot is gone
\* and the registry no longer has the id
C19_RemovedDirectoryGone ==
    SlotCall("remove_slot") /\ slot_last.ret # None =>
        /\ Unwrap(slot_last.ret).path \notin DOMAIN dirs
        /\ slot_last.arg \notin registry_ids(registry)

\* C20: every slot id appears at most once among the registry's entries
C20_RegistryIdsUnique ==
    \A i, j \in 1..Len(registry) : registry[i].id = registry[j].id => i = j

\* add_slot was given a label whose id was taken and handed out the next one
C20_Witness ==
    /\ SlotCall("add_slot")
    /\ Len(registry) = 2
    /\ registry[1].id = "slot-slotx"
    /\ registry[2].id = "slot-slotx-2"


(***************************************************************************)
(* Discovery of nested slot directories: scan_slot_root and scan_slot_dir, *)
(* the same in auth_accounts.rs and account_slots.rs.  Here a directory is *)
(* the sequence of names that leads to it from the discovery root, and     *)
(* dirs maps each directory present to whether it holds a credential file. *)
(* The scan's result is the set of directories it discovers.               *)
(***************************************************************************)
MAX_SLOT_DEPTH == 2

\* the deepest level below the discovery root at which directories are made
MaxLevels == 4

\* the names directories are given at a level below the discovery root
DirNames(level) == IF level = 1 THEN {"Slot-A", "other"} ELSE {"x"}

\* name.to_ascii_lowercase().starts_with(SLOT_PREFIX)
HasSlotPrefix(name) == name = "Slot-A"

RECURSIVE scan_slot_dir(_, _, _)
\* scan_slot_dir: past the depth bound nothing; a directory with a credential
\* file is a slot and is not descended into; at the depth bound no descent
scan_slot_dir(tree, path, depth) ==
    IF depth > MAX_SLOT_DEPTH THEN {}
    ELSE IF tree[path] THEN {path}
    ELSE IF depth = MAX_SLOT_DEPTH THEN {}
    ELSE UNION {scan_slot_dir(tree, child, depth + 1) :
                   child \in {p \in DOMAIN tree :
                                 /\ Len(p) = Len(path) + 1
                                 /\ SubSeq(p, 1, Len(path)) = path}}

\* scan_slot_root: the directories of the root whose name has the prefix are
\* scanned at depth 0
scan_slot_root(tree) ==
    UNION {scan_slot_dir(tree, top, 0) :
              top \in {p \in DOMAIN tree : Len(p) = 1 /\ HasSlotPrefix(p[1])}}

\* a directory is made in the root or in a directory present
MakeNestedDir ==
    /\ \E parent \in DOMAIN dirs \cup {<<>>} :
       \E name \in DirNames(Len(parent) + 1) :
          /\ Len(parent) < MaxLevels
          /\ Append(parent, name) \notin DOMAIN dirs
          /\ dirs' = [p \in DOMAIN dirs \cup {Append(parent, name)} |->
                         IF p \in DOMAIN dirs THEN dirs[p] ELSE FALSE]
    /\ slot_last' = [op |-> "mkdir", arg |-> None, ret |-> None]
    /\ UNCHANGED <<registry, removed>>
    /\ UNCHANGED <<scheduler_vars, container_vars, seen, procs>>

\* a credential file is written into a directory present
WriteNestedAuth ==
    /\ \E path \in DOMAIN dirs :
          /\ ~dirs[path]
          /\ dirs' = [dirs EXCEPT ![path] = TRUE]
    /\ slot_last' = [op |-> "login", arg |-> None, ret |-> None]
    /\ UNCHANGED <<registry, removed>>
    /\ UNCHANGED <<scheduler_vars, container_vars, seen, procs>>

ScanSlotRoot ==
    /\ slot_last' = [op |-> "scan_slot_root", arg |-> None,
                     ret |-> Some(scan_slot_root(dirs))]
    /\ UNCHANGED <<registry, dirs, removed>>
    /\ UNCHANGED <<scheduler_vars, container_vars, seen, procs>>

ScanNext ==
    \/ MakeNestedDir
    \/ WriteNestedAuth
    \/ ScanSlotRoot

SpecScan == SlotsInit /\ [][ScanNext]_vars

(***************************************************************************)
(* Claims about discovery (SpecScan)                                       *)
(***************************************************************************)
\* the scan comes to the directory: its top-level directory has the slot
\* prefix and no directory above it holds a credential file
ReachedByScan(path) ==
    /\ HasSlotPrefix(path[1])
    /\ \A k \in 1..(Len(path) - 1) : ~dirs[SubSeq(path, 1, k)]

\* after a scan: the directories with a credential file that the scan comes
\* to are discovered exactly when they lie at most `levels` below the root
DiscoveredToLevel(levels) ==
    SlotCall("scan_slot_root") =>
        \A path \in DOMAIN dirs :
            dirs[path] /\ ReachedByScan(path) =>
                (path \in Unwrap(slot_last.ret) <=> Len(path) <= levels)

\* C21: a directory with a credential file reached through a top-level
\* directory with the slot prefix is discovered when it lies at most 2
\* levels below the discovery root and is not discovered when it lies deeper
C21_DiscoveredToLevelTwo == DiscoveredToLevel(2)

\* what the code does: the top-level directory is at depth 0, so discovery
\* goes MAX_SLOT_DEPTH levels below it, 3 levels below the discovery root
C21_DiscoveredToLevelThree == DiscoveredToLevel(MAX_SLOT_DEPTH + 1)


(***************************************************************************)
(* SpecRescan: list_slots called again and again while slot directories    *)
(* whose names give the same slug appear and disappear, and slots are      *)
(* added, renamed and removed                                              *)
(***************************************************************************)
\* directories made by hand; both names are sanitized to "slot-x"
RescanDirs == {"slot.x", "slot_x"}

\* the history after a call on the slots: list_slots adds the (id, path)
\* pairs of its result, rename_slot the label it set, and remove_slot
\* forgets the id it removed
Noted(prev, call) ==
    LET gone(id) == call.op = "remove_slot" /\ call.ret # None /\ call.arg = id
        listed == IF call.op # "list_slots" THEN {}
                  ELSE {<<Unwrap(call.ret)[i].id, Unwrap(call.ret)[i].path>> :
                           i \in 1..Len(Unwrap(call.ret))}
        renamed == IF call.op = "rename_slot" /\ call.ret # None
                   THEN {call.arg[1]} ELSE {}
        kept == {id \in DOMAIN prev.labels : ~gone(id)}
    IN [slots |-> {pair \in prev.slots : ~gone(pair[1])} \cup listed,
        labels |-> [id \in kept \cup renamed |->
                       IF id \in renamed THEN Unwrap(call.ret).label
                       ELSE prev.labels[id]]]

RescanNext ==
    /\ \/ \E order \in Orders(Discoverable) : list_slots(order)
       \/ \E order \in Orders(Discoverable) : add_slot(Some("SlotX"), order)
       \/ \E slot_id \in registry_ids(registry) :
          \E new_label \in {None, Some(" SlotX ")} : rename_slot(slot_id, new_label)
       \/ \E slot_id \in registry_ids(registry) : remove_slot(slot_id)
       \/ \E d \in RescanDirs \ DOMAIN dirs :
             /\ dirs' = [x \in DOMAIN dirs \cup {d} |-> IF x = d THEN TRUE ELSE dirs[x]]
             /\ slot_last' = [op |-> "mkdir", arg |-> None, ret |-> None]
             /\ UNCHANGED <<registry, removed>>
       \/ \E d \in RescanDirs \cap DOMAIN dirs :
             /\ dirs' = [x \in DOMAIN dirs \ {d} |-> dirs[x]]
             /\ slot_last' = [op |-> "rmdir", arg |-> None, ret |-> None]
             /\ UNCHANGED <<registry, removed>>
    /\ Len(registry') <= MaxSlots
    /\ seen' = Noted(seen, slot_last')
    /\ UNCHANGED <<scheduler_vars, container_vars, procs>>

SpecRescan == SlotsInit /\ [][RescanNext]_vars

(***************************************************************************)
(* Claims about rescans (SpecRescan)                                       *)
(***************************************************************************)
\* C22: an (id, path) pair list_slots has reported is in every later result
\* of list_slots, with no other id for the path, and a label rename_slot set
\* is the label reported, whatever order the directories are read in and
\* whatever other directories came or went, until remove_slot removes the id
C22_StableAcrossRescans ==
    SlotCall("list_slots") =>
        LET listing == Unwrap(slot_last.ret)
        IN /\ \A pair \in seen.slots :
                  /\ \E i \in 1..Len(listing) :
                         listing[i].id = pair[1] /\ listing[i].path = pair[2]
                  /\ \A i \in 1..Len(listing) :
                         listing[i].path = pair[2] => listing[i].id = pair[1]
           /\ \A id \in DOMAIN seen.labels : Shows(listing, id, seen.labels[id])

\* both hand-made directories were listed, one was renamed, the directories
\* were then read in the other order, and the listing is as before
C22_Witness ==
    /\ SlotCall("list_slots")
    /\ {<<"slot-slot-x", "slot.x">>, <<"slot-slot-x-2", "slot_x">>} \subseteq seen.slots
    /\ "slot-slot-x-2" \in DOMAIN seen.labels
    /\ seen.labels["slot-slot-x-2"] = Some("SlotX")
    /\ RescanDirs \subseteq DOMAIN dirs


(***************************************************************************)
(* Claims about discover_slot_accounts (SpecSlots)                         *)
(***************************************************************************)
\* the registry entries add_slot made whose directory holds a credential file
PopulatedAddedSlots ==
    {i \in 1..Len(registry) :
        /\ registry[i].path = Some(registry[i].id)
        /\ registry[i].id \in DOMAIN dirs
        /\ dirs[registry[i].id]}

\* C23: discover_slot_accounts reports the credential file of a slot made by
\* add_slot under the id add_slot returned, and with the label the registry
\* has for the slot when it has one
C23_DiscoverUsesRegistry ==
    SlotCall("discover_slot_accounts") =>
        \A i \in PopulatedAddedSlots :
            \E account \in Unwrap(slot_last.ret) :
                /\ account.auth = registry[i].id
                /\ account.id = registry[i].id
                /\ registry[i].label # None => account.label = registry[i].label

\* a slot added with a label was populated and discovered under that label
C23_Witness ==
    /\ SlotCall("discover_slot_accounts")
    /\ \E i \in PopulatedAddedSlots : registry[i].label = Some("SlotX")
    /\ \E account \in Unwrap(slot_last.ret) : account.label = Some("SlotX")


(***************************************************************************)
(* Claims about the listing when a source fails (SpecContainer)            *)
(***************************************************************************)
\* the ids of the explicitly registered accounts, in the file's order
ExplicitListing == [i \in 1..Len(store) |-> store[i].id]

\* the last call on the accounts file was list_accounts
Listed == last.op = "list_accounts"

\* C24: when slot discovery fails, list_accounts succeeds and returns every
\* explicitly registered account and nothing else
C24_DiscoveryFailureKeepsExplicit ==
    /\ Listed
    /\ last.arg.readable
    /\ last.arg.discovered = None
    => last.ret = Some(ExplicitListing)

\* discovery failed while the file held two records, and both were listed
C24_Witness ==
    /\ Listed
    /\ last.arg.readable
    /\ last.arg.discovered = None
    /\ Len(store) = 2
    /\ last.ret # None
    /\ Len(Unwrap(last.ret)) = 2

\* C25: when the accounts file is present but malformed, list_accounts
\* still returns the slot-derived accounts (the store contributes nothing)
C25_MalformedStoreKeepsSlots ==
    /\ Listed
    /\ ~last.arg.readable
    /\ last.arg.discovered # None
    => last.ret = last.arg.discovered


(***************************************************************************)
(* Claims about cooled identities and members (Spec)                       *)
(***************************************************************************)
\* the catalogued accounts of the same scheduling identity as id
SameIdentity(id) ==
    {other \in DOMAIN accounts :
        slot_identity(accounts[other]) = slot_identity(accounts[id])}

\* C27: after record_outcome(id, RateLimited{resume_at: T}) no account of
\* id's scheduling identity is returned by next_account as long as every
\* call made since had a time t < T
C27_CooledIdentitySkipped ==
    \A id \in DOMAIN accounts : \A T \in ResumeTimes :
        LimitedUntil(id, T) =>
            \A other \in SameIdentity(id) : Returned(other) => CalledPast(id, T)

\* what the code keeps: the cooldown holds back the account it was recorded
\* for, not the other accounts of its identity
C27_CooledAccountSkipped ==
    \A id \in DOMAIN accounts : \A T \in ResumeTimes :
        LimitedUntil(id, T) => (Returned(id) => CalledPast(id, T))


(***************************************************************************)
(* Claims about long runs (SpecLive, SpecFixed)                            *)
(***************************************************************************)
\* the summed weight of the identities the scheduler holds a counter for
TotalWeight == SumOver(DOMAIN weights, [i \in DOMAIN weights |-> weights[i].weight])

\* the last call chose the identity of this account
ChoseIdentityOf(id) ==
    /\ op = "next_account"
    /\ ret # None
    /\ id \in DOMAIN accounts
    /\ ChosenIdentity = slot_identity(accounts[id])

\* an identity's counter is (calls made) * (its weight) - (its wins) * (total
\* weight): the counter divided by the total weight is how many wins the
\* identity is short of its proportional share (stated where the products
\* stay within 32 bits)
C28_CounterIsShortfall ==
    TotalWeight <= 2147483647 \div (MaxFixedPicks + 1) =>
        \A i \in DOMAIN weights :
            weights[i].current =
                calls * weights[i].weight - IdentityCount(i) * TotalWeight

\* C28: with a fixed catalogue and fixed weights every eligible identity is
\* chosen infinitely often, and the wins of each identity stay within one
\* pick of its proportional share (its counter stays within the total weight)
C28_NoStarvationBoundedError ==
    /\ \A id \in AccountIds : []<>(id \in LiveEligible => ChoseIdentityOf(id))
    /\ [](\A i \in DOMAIN weights :
              /\ weights[i].current < TotalWeight
              /\ weights[i].current > 0 - TotalWeight)

\* an identity won a pick although another one is at least ten times as heavy
C28_Witness ==
    \E i, j \in DOMAIN weights :
        /\ weights[j].weight >= 10 * weights[i].weight
        /\ op = "next_account" /\ ret # None /\ ChosenIdentity = i


\* the candidates of the identity the last call chose, other than id
OtherMembers(id) == members(accounts, Considered, ChosenIdentity) \ {id}

\* C29: the account returned is the heaviest candidate of the chosen
\* identity, and among the heaviest the one whose id is the greatest in
\* string order, so nothing but weights and ids decides the member
C29_HeaviestMemberThenId ==
    \A id \in AccountIds :
        Returned(id) =>
            \A other \in OtherMembers(id) :
                \/ slot_weight(snapshots, other, now) < slot_weight(snapshots, id, now)
                \/ /\ slot_weight(snapshots, other, now) = slot_weight(snapshots, id, now)
                   /\ IdRank(other) < IdRank(id)

\* a member was returned that ties on weight with another member
C29_Witness ==
    \E id \in AccountIds :
        /\ Returned(id)
        /\ \E other \in OtherMembers(id) :
               slot_weight(snapshots, other, now) = slot_weight(snapshots, id, now)


(***************************************************************************)
(* SpecUrgency: urgency_multiplier applied to the quota ratios             *)
(***************************************************************************)
\* the largest ratio applied, in thousandths: 5.0, past R_CAP
MaxRatio == 5000

\* the ratios applied are the multiples of RatioStep, in RatioUnit
RatioStep == 5

\* one application; the ratio and the multiplier are kept in last
UrgencyMultiplier ==
    /\ \E ratio \in {r \in 0..MaxRatio : r % RatioStep = 0} :
          last' = [op |-> "urgency_multiplier", arg |-> ratio,
                   ret |-> urgency_multiplier(ratio)]
    /\ UNCHANGED <<store, active, nextId>>
    /\ UNCHANGED <<scheduler_vars, slot_vars, procs>>

SpecUrgency == ContainerInit /\ [][UrgencyMultiplier]_vars

\* m is the point at r of the line from (r0, m0) to (r1, m1), cut to a
\* whole number of units
OnLine(r, m, r0, m0, r1, m1) ==
    /\ (m - m0) * (r1 - r0) <= (r - r0) * (m1 - m0)
    /\ (r - r0) * (m1 - m0) < (m - m0 + 1) * (r1 - r0)

\* the stated function, with ratio and multiplier in thousandths
StatedMultiplier(r, m) ==
    /\ r <= 250 => m = 100
    /\ (250 <= r /\ r <= 1000) => OnLine(r, m, 250, 100, 1000, 1000)
    /\ (1000 <= r /\ r <= 1500) => m = 1000
    /\ (1500 <= r /\ r <= 4000) => OnLine(r, m, 1500, 1000, 4000, 2000)
    /\ r >= 4000 => m = 2000

\* C30: for every ratio the multiplier is the stated piecewise function:
\* 0.1 up to 0.25, the line to 1.0 at 1.0, 1.0 up to 1.5, the line to 2.0
\* at 4.0, and 2.0 from there; it never decreases, it moves by no more than
\* the slope from one ratio to the next, and it stays within [0.1, 2.0]
C30_UrgencyIsPiecewise ==
    last.op = "urgency_multiplier" =>
        /\ RatioUnit = 1000
        /\ StatedMultiplier(last.arg, last.ret)
        /\ 100 <= last.ret /\ last.ret <= 2000
        /\ last.arg > 0 =>
              /\ urgency_multiplier(last.arg - RatioStep) <= last.ret
              /\ last.ret - urgency_multiplier(last.arg - RatioStep) <= 2 * RatioStep

\* a ratio inside a rising segment got a multiplier between its ends
C30_Witness ==
    /\ last.op = "urgency_multiplier"
    /\ 1500 < last.arg /\ last.arg < 4000
    /\ 1000 < last.ret /\ last.ret < 2000


(***************************************************************************)
(* SpecRace: processes that call upsert_chatgpt_account or add_slot on one *)
(* code home at the same time.  Neither file is locked, so a call is two   *)
(* steps: the read of the file, and the rest up to the write.              *)
(***************************************************************************)
\* the credential process p logs in with, and the label it adds a slot with:
\* different for different processes
RaceTokens(p) == TokenData(Some(IF p = 1 THEN "u1" ELSE IF p = 2 THEN "u2" ELSE "u3"),
                           Some("user@x"))

RaceLabel(p) == IF p = 1 THEN "SlotX" ELSE IF p = 2 THEN "default" ELSE "slot.x"

\* mutant: the write keeps the records on disk that the writer does not hold
write_accounts_file_merged(on_disk, data) ==
    LET held == {data[i].id : i \in 1..Len(data)}
        not_held(acc) == acc.id \notin held
    IN SelectSeq(on_disk, not_held) \o data

\* write_accounts_file: the file is truncated and gets what the writer holds
write_accounts_file(on_disk, data) == data

\* upsert_chatgpt_account up to read_accounts_file
ReadAccountsFile(p) ==
    /\ procs[p].pc \notin {"read_accounts_file", "load"}
    /\ nextId + Cardinality({q \in 1..MaxProcs : procs[q].pc = "read_accounts_file"})
           < MaxRecords
    /\ \E make_active \in BOOLEAN :
          procs' = [procs EXCEPT ![p] =
                       [pc |-> "read_accounts_file",
                        data |-> Some([accounts |-> store, active |-> active]),
                        arg |-> Some(make_active), ret |-> None]]
    /\ UNCHANGED <<scheduler_vars, container_vars, slot_vars>>

\* upsert_chatgpt_account from next_id() to write_accounts_file
WriteAccountsFile(p) ==
    /\ procs[p].pc = "read_accounts_file"
    /\ LET data == Unwrap(procs[p].data)
           new_account == [id |-> next_id(nextId + 1), mode |-> "ChatGPT", label |-> None,
                           openai_api_key |-> None, tokens |-> Some(RaceTokens(p)),
                           created_at |-> None]
           r == upsert_account(data.accounts, new_account, 0)
       IN /\ store' = write_accounts_file(store, r.accounts)
          /\ active' = IF Unwrap(procs[p].arg) THEN Some(r.account.id) ELSE data.active
          /\ nextId' = IF r.account.id = new_account.id THEN nextId + 1 ELSE nextId
          /\ last' = [op |-> "upsert_chatgpt_account", arg |-> RaceTokens(p),
                      ret |-> Some(r.account.id)]
          /\ procs' = [procs EXCEPT ![p].pc = "upsert_chatgpt_account done",
                                    ![p].ret = Some(r.account.id)]
    /\ UNCHANGED <<scheduler_vars, slot_vars>>

\* add_slot up to SlotRegistryFile::load
LoadRegistry(p) ==
    /\ procs[p].pc \notin {"read_accounts_file", "load"}
    /\ Len(registry) + Cardinality({q \in 1..MaxProcs : procs[q].pc = "load"}) < MaxSlots
    /\ procs' = [procs EXCEPT ![p] =
                    [pc |-> "load", data |-> Some(registry),
                     arg |-> Some(RaceLabel(p)), ret |-> None]]
    /\ UNCHANGED <<scheduler_vars, container_vars, slot_vars>>

\* add_slot from scan_slot_dirs to SlotRegistryFile::save
SaveRegistry(p) ==
    /\ procs[p].pc = "load"
    /\ \E order \in Orders(Discoverable) :
          add_slot_on(Unwrap(procs[p].data), procs[p].arg, order)
    /\ procs' = [procs EXCEPT ![p].pc = "add_slot done",
                              ![p].ret = Some(slot_last'.ret[1].id)]
    /\ UNCHANGED <<scheduler_vars, container_vars, seen>>

RaceNext ==
    \E p \in 1..MaxProcs :
        \/ ReadAccountsFile(p)
        \/ WriteAccountsFile(p)
        \/ LoadRegistry(p)
        \/ SaveRegistry(p)

SpecRace == ContainerInit /\ [][RaceNext]_vars

\* the processes whose call of this kind has returned
Done(kind) == {p \in 1..MaxProcs : procs[p].pc = kind \o " done"}

\* the ids of the records of a sequence
IdsOf(records) == {records[i].id : i \in 1..Len(records)}

\* C26: when two upserts of different credentials have both returned an
\* account, the record of the one that wrote first is in the file if and
\* only if the one that wrote last had read it; so with both reads before
\* both writes the file holds one of the two records.  The same for the
\* registry and two add_slot calls.
C26_FileIsLastWritersView ==
    /\ \A q \in Done("upsert_chatgpt_account") :
           (last.ret = procs[q].ret) =>
               /\ procs[q].ret # None
               /\ \A p \in Done("upsert_chatgpt_account") \ {q} :
                      /\ procs[p].ret # None
                      /\ Unwrap(procs[p].ret) \in IdsOf(store)
                             <=> Unwrap(procs[p].ret)
                                     \in IdsOf(Unwrap(procs[q].data).accounts)
    /\ \A q \in Done("add_slot") :
           (slot_last.ret # None /\ Some(slot_last.ret[1].id) = procs[q].ret) =>
               \A p \in Done("add_slot") \ {q} :
                   /\ procs[p].ret # None
                   /\ Unwrap(procs[p].ret) \in IdsOf(registry)
                          <=> Unwrap(procs[p].ret) \in IdsOf(Unwrap(procs[q].data))

\* two upserts have returned, each the record it created, and the file
\* holds one record; after that two add_slot calls have returned different
\* slots and the registry holds one entry
C26_Witness ==
    /\ nextId = 2
    /\ Len(store) = 1
    /\ Done("add_slot") = {1, 2}
    /\ procs[1].ret # None /\ procs[2].ret # None /\ procs[1].ret # procs[2].ret
    /\ Len(registry) = 1


\* the bundle names the account and carries no email
AccountIdOnly(tokens) == tokens.account_id # None /\ tokens.email = None

\* C32: an upsert_chatgpt_account whose tokens carry an account identifier
\* and no email appends one record with an id no record had, whatever is
\* stored, and returns that record
C32_NoEmailAlwaysAppends ==
    [][(Calls("upsert_chatgpt_account") /\ AccountIdOnly(last'.arg)) =>
          /\ Len(store') = Len(store) + 1
          /\ store' = Append(store, store'[Len(store')])
          /\ store'[Len(store')].id \notin IdsOf(store)
          /\ store'[Len(store')].id = next_id(nextId')
          /\ nextId' = nextId + 1
          /\ last'.ret = Some(store'[Len(store')].id)]_vars

\* the same tokens without email were upserted twice and are stored twice
C32_Witness ==
    /\ last.op = "upsert_chatgpt_account"
    /\ AccountIdOnly(last.arg)
    /\ Len(store) = 2
    /\ store[1].tokens = Some(last.arg)
    /\ store[2].tokens = Some(last.arg)
    /\ store[1].id # store[2].id
    /\ last.ret = Some(store[2].id)


\* C33: after a list_slots call every directory the scan discovers has a
\* registry entry that resolves to it and a slot of the returned listing
\* bound to it
C33_DiscoveredAreMerged ==
    SlotCall("list_slots") =>
        \A d \in Discoverable :
            /\ \E i \in 1..Len(registry) : resolve_entry_path(registry[i]) = d
            /\ \E i \in 1..Len(Unwrap(slot_last.ret)) : Unwrap(slot_last.ret)[i].path = d


\* C34: every directory on the way from the discovery root to a discovered
\* directory, the directory itself included, has a name with the slot prefix
C34_PrefixAllTheWay ==
    SlotCall("scan_slot_root") =>
        \A path \in Unwrap(slot_last.ret) :
            \A k \in 1..Len(path) : HasSlotPrefix(path[k])


\* C35: the slot add_slot returns has no credential file, and the call
\* leaves the credential files as they are
C35_AddedSlotIsEmpty ==
    /\ [](SlotCall("add_slot") => ~Unwrap(slot_last.ret).has_auth_file)
    /\ [][SlotCall("add_slot")' =>
             \A d \in DOMAIN dirs' : dirs'[d] <=> (d \in DOMAIN dirs /\ dirs[d])]_vars


(***************************************************************************)
(* The slot rows of list_accounts against list_slots (SpecSlots)           *)
(***************************************************************************)
\* discover_slot_accounts of auth_accounts.rs, which list_accounts appends
\* to the explicit records: one account per scanned directory, with the id
\* push_slot_account derives from the directory's name and the label
\* "Slot <name>"; the registry is not read
slot_accounts(order) ==
    {[id |-> scanned.id, label |-> scanned.label] :
        scanned \in {scan_slot_dirs(order)[k] : k \in 1..Len(scan_slot_dirs(order))}}

\* C36: after a list_slots call, every slot of the listing that has a
\* credential file is among the slot accounts list_accounts would append,
\* with the listing's id and label
C36_SlotRowsAreListedSlots ==
    SlotCall("list_slots") =>
        \A i \in 1..Len(Unwrap(slot_last.ret)) :
            Unwrap(slot_last.ret)[i].has_auth_file =>
                \A order \in Orders(Discoverable) :
                    \E account \in slot_accounts(order) :
                        /\ account.id = Unwrap(slot_last.ret)[i].id
                        /\ account.label = Unwrap(slot_last.ret)[i].label


\* C37: the ids of a list_slots result are pairwise distinct, the only slot
\* with the id slot-default is the synthetic default slot, and add_slot
\* never returns the id slot-default
C37_ListedIdsDistinct ==
    /\ SlotCall("list_slots") =>
           \A i, j \in 1..Len(Unwrap(slot_last.ret)) :
               /\ Unwrap(slot_last.ret)[i].id = Unwrap(slot_last.ret)[j].id => i = j
               /\ Unwrap(slot_last.ret)[i].id = DEFAULT_SLOT_ID =>
                      Unwrap(slot_last.ret)[i] = default_slot(dirs)
    /\ SlotCall("add_slot") => Unwrap(slot_last.ret).id # DEFAULT_SLOT_ID


\* C38: an account whose last outcome is RateLimited until T is not returned
\* by a next_account call with now < T, whatever the times of the calls made
\* before
C38_SkippedWhateverTheOrder ==
    \A id \in DOMAIN accounts : \A T \in ResumeTimes :
        (LimitedUntil(id, T) /\ Returned(id)) => now >= T


(***************************************************************************)
(* The round-robin counters (Spec)                                         *)
(***************************************************************************)
\* the sum of the `current` counters of the tracked identities
SumCurrent(states) == SumOver(DOMAIN states, Currents(states))

\* the step is a next_account call that returns an account and drops no
\* tracked identity
PickKeepsAll ==
    /\ calls' = calls + 1
    /\ ret' # None
    /\ DOMAIN weights \subseteq DOMAIN weights'

\* C39: the counters of a new scheduler sum to zero, and a next_account call
\* that returns an account and drops no identity keeps the sum at zero: it
\* adds to each tracked identity's counter (zero for an identity that joins)
\* the identity's weight once and takes the total weight from the counter of
\* the returned account's identity only
C39_CountersSumToZero ==
    /\ SumCurrent(weights) = 0
    /\ [][(PickKeepsAll /\ SumCurrent(weights) = 0) =>
             /\ SumCurrent(weights') = 0
             /\ \A i \in DOMAIN weights' :
                    weights'[i].current =
                        (IF i \in DOMAIN weights THEN weights[i].current ELSE 0)
                            + weights'[i].weight
                            - (IF i = slot_identity(accounts[Unwrap(ret')])
                               THEN SumOver(DOMAIN weights',
                                            [j \in DOMAIN weights' |-> weights'[j].weight])
                               ELSE 0)]_vars

\* no outcome was ever recorded, so no identity was dropped; two picks
\* were made over two identities, the second with a weight that differs from
\* the first pick's (a counter is not what two picks with today's weights
\* give), and the counters sum to zero
C39_Witness ==
    /\ op = "next_account"
    /\ ret # None
    /\ calls = 2
    /\ log = EmptyMap
    /\ Cardinality(DOMAIN weights) = 2
    /\ SumCurrent(weights) = 0
    /\ \E i \in DOMAIN weights :
          LET w == weights[i].weight
              T == SumOver(DOMAIN weights, [j \in DOMAIN weights |-> weights[j].weight])
          IN weights[i].current \notin {2 * w - 2 * T, 2 * w - T, 2 * w, w, w - T}


(***************************************************************************)
(* Determinism of next_account (SpecFixed)                                 *)
(***************************************************************************)
\* what a next_account(now_) call that reads the catalogue can do in this
\* state: the new counters and the account returned, one outcome for each
\* iteration order of totals_by_identity
Outcomes_of_pick(now_) ==
    LET pruned == prune_expired_cooldowns(cooldowns, now_)
        totals == totals_by_identity(accounts, snapshots, pruned, now_)
    IN IF SumOver(DOMAIN totals, totals) <= 0 THEN {}
       ELSE {pick(accounts, snapshots, eligible_ids(accounts, pruned, now_),
                  retain_weights(weights, totals), totals, order, now_) :
                order \in Orders(DOMAIN totals)}

\* C40: in every state, cooldowns, counters, catalogue, telemetry and now
\* leave next_account one account to return and one state to end in
C40_OneOutcome == Cardinality(Outcomes_of_pick(now)) <= 1


(***************************************************************************)
(* SpecMerge: logins with and without a label, at different times, on the  *)
(* accounts file of an empty code home                                     *)
(***************************************************************************)
\* the labels logins carry
MergeLabels == {None, Some("work")}

MergeNext ==
    \/ /\ \E tokens \in {TokenData(Some("u1"), Some("user@x")),
                         TokenData(Some("u2"), Some("user@x"))} :
          \E label \in MergeLabels, wall \in {1, 2}, make_active \in BOOLEAN :
             upsert_chatgpt_account(tokens, label, wall, make_active)
       /\ nextId' <= MaxRecords
       /\ UNCHANGED <<scheduler_vars, slot_vars, procs>>
    \/ /\ \E api_key \in {"sk-1"} :
          \E label \in MergeLabels, wall \in {1, 2}, make_active \in BOOLEAN :
             upsert_api_key_account(api_key, label, wall, make_active)
       /\ nextId' <= MaxRecords
       /\ UNCHANGED <<scheduler_vars, slot_vars, procs>>

SpecMerge == ContainerInit /\ [][MergeNext]_vars

\* the step is an upsert that returns the record stored at idx
MergesInto(idx) ==
    /\ Calls("upsert_chatgpt_account") \/ Calls("upsert_api_key_account")
    /\ last'.ret = Some(store[idx].id)

\* C31: an upsert that matches a stored record leaves that record its id and
\* created_at, gives it the incoming label if there is one and leaves it its
\* label otherwise, leaves every other record as it is, and leaves the
\* number of records as it is
C31_MergeKeepsTheRecord ==
    [][\A idx \in 1..Len(store) :
          MergesInto(idx) =>
              /\ Len(store') = Len(store)
              /\ store'[idx].id = store[idx].id
              /\ store'[idx].created_at = store[idx].created_at
              /\ store'[idx].label = (IF last'.label # None THEN last'.label
                                      ELSE store[idx].label)
              /\ \A k \in 1..Len(store) : k # idx => store'[k] = store[k]]_vars

\* a login without label has matched the first of two records, which was
\* created at 1 with the label "work" and still has both
C31_Witness ==
    /\ last.op = "upsert_chatgpt_account"
    /\ last.label = None
    /\ Len(store) = 2
    /\ last.ret = Some(store[1].id)
    /\ store[1].label = Some("work")
    /\ store[1].created_at = Some(1)
    /\ store[2].created_at = Some(2)

====
